---- MODULE Spec2Model ----
(***************************************************************************)
(* State machine of miSeqClonePicker's state package: the State object of  *)
(* src/state/core.py with its undo/redo history and saved marker, the      *)
(* sample sheet functions of src/state/samplesheet.py, the sequencing      *)
(* output functions of src/state/miseq.py and the label helpers of        *)
(* src/common.py.                                                          *)
(*                                                                         *)
(* Encoding.  A Python str is a sequence of one-character strings.  An     *)
(* Optional value is a sequence of length 0 (None) or 1 (the value).  A    *)
(* dict is a function; a list is a sequence.  A spreadsheet cell is a      *)
(* record [isnum, n, s]: a number n, or a text s (blank is the empty text).*)
(* Header values, group names and knockout names are what load copies from *)
(* cells, so they are cells too; the names of sequencing targets are str.  *)
(* A method of State is an operator from the object (a record of its       *)
(* attributes) and the call's inputs to [self, raised]: the object as the  *)
(* call leaves it and whether the call raised.                             *)
(***************************************************************************)
EXTENDS Integers, Sequences, FiniteSets, TLC

None == <<>>

Some(x) == <<x>>

Range(seq) == {seq[i] : i \in 1..Len(seq)}

Min(a, b) == IF a < b THEN a ELSE b

Max(a, b) == IF a > b THEN a ELSE b

----------------------------------------------------------------------------
(* src/common.py and the str methods the code uses *)

UpperChars ==
    << "A", "B", "C", "D", "E", "F", "G", "H", "I", "J", "K", "L", "M",
       "N", "O", "P", "Q", "R", "S", "T", "U", "V", "W", "X", "Y", "Z" >>

LowerChars ==
    << "a", "b", "c", "d", "e", "f", "g", "h", "i", "j", "k", "l", "m",
       "n", "o", "p", "q", "r", "s", "t", "u", "v", "w", "x", "y", "z" >>

DigitChars == << "0", "1", "2", "3", "4", "5", "6", "7", "8", "9" >>

\* str.lower() on one character
LowerChar(c) ==
    IF \E i \in 1..Len(UpperChars) : UpperChars[i] = c
    THEN LowerChars[CHOOSE i \in 1..Len(UpperChars) : UpperChars[i] = c]
    ELSE c

\* value.lower().replace(' ', '_')
Normalize(str) ==
    [i \in 1..Len(str) |->
        IF LowerChar(str[i]) = " " THEN "_" ELSE LowerChar(str[i])]

\* str.startswith
StartsWith(str, prefix) ==
    /\ Len(prefix) <= Len(str)
    /\ \A i \in 1..Len(prefix) : str[i] = prefix[i]

\* str(n) for an int n >= 0
RECURSIVE Str(_)
Str(n) ==
    IF n < 10
    THEN << DigitChars[n + 1] >>
    ELSE Str(n \div 10) \o << DigitChars[(n % 10) + 1] >>

\* column_label, had it divided number rather than number - 1
RECURSIVE column_label_plain_quotient(_)
column_label_plain_quotient(number) ==
    IF number = 0
    THEN << >>
    ELSE column_label_plain_quotient(number \div 26)
            \o << UpperChars[((number - 1) % 26) + 1] >>

\* the assertion number > 0 is taken to hold
RECURSIVE column_label(_)
column_label(number) ==
    IF number = 0
    THEN << >>
    ELSE column_label((number - 1) \div 26)
            \o << UpperChars[((number - 1) % 26) + 1] >>

clone_label(number) ==
    << UpperChars[(number \div 12) + 1] >> \o Str((number % 12) + 1)

----------------------------------------------------------------------------
(* Spreadsheet cells as xlrd hands them over *)

Num(k) == [isnum |-> TRUE, n |-> k, s |-> << >>]

Txt(str) == [isnum |-> FALSE, n |-> 0, s |-> str]

Blank == Txt(<< >>)

\* bool(cell): a number other than 0, or a text other than ''
CellTruthy(cell) == IF cell.isnum THEN cell.n # 0 ELSE cell.s # << >>

\* cell in (0, 1)
IsIndicator(cell) == cell.isnum /\ cell.n \in {0, 1}

\* '%s' % cell: xlrd reads every number as a float
CellText(cell) == IF cell.isnum THEN Str(cell.n) \o << ".", "0" >> ELSE cell.s

----------------------------------------------------------------------------
(* src/state/samplesheet.py *)

HEADERS == << "extraction", "amplicon", "knockout" >>

DummyValue == << "D", "u", "m", "m", "y", "V", "a", "l", "u", "e" >>

\* bool(value) of an Optional[str]: neither None nor ''
StrTruthy(label) == label # None /\ label[1] # << >>

\* for cell in column[row_idx:]: count the leading cells that are 0 or 1
\* (row_idx is 0-based as in the source; the sequence is 1-based)
RECURSIVE current_height(_, _)
current_height(column, row_idx) ==
    IF row_idx >= Len(column) THEN 0
    ELSE IF IsIndicator(column[row_idx + 1])
         THEN 1 + current_height(column, row_idx + 1)
         ELSE 0

\* the loop of _grow_selection from column k (0-based) with width and
\* height so far; returns << width, height >>
RECURSIVE grow_loop(_, _, _, _, _)
grow_loop(table, row_idx, k, width, height) ==
    IF k >= Len(table) THEN << width, height >>
    ELSE LET ch == current_height(table[k + 1], row_idx)
         IN  IF ch = 0 \/ ch < height
             THEN << width, height >>
             ELSE grow_loop(table, row_idx, k + 1, width + 1,
                            Min(IF height # 0 THEN height ELSE ch, ch))

grow_selection(table, row_idx, column_idx) ==
    grow_loop(table, row_idx, column_idx, 0, 0)

\* best candidate so far: found is "best_row is not None"
NoBest == [found |-> FALSE, row |-> 0, column |-> 0, width |-> 0, height |-> 0]

\* the inner loop of _locate_cells, had it taken a candidate that is as
\* large as the best one
RECURSIVE locate_rows_takes_ties(_, _, _, _)
locate_rows_takes_ties(table, column_idx, row_idx, best) ==
    IF row_idx >= Len(table[column_idx + 1]) THEN best
    ELSE LET wh == grow_selection(table, row_idx, column_idx)
         IN  locate_rows_takes_ties(table, column_idx, row_idx + 1,
                 IF wh[1] * wh[2] >= best.width * best.height
                 THEN [found |-> TRUE, row |-> row_idx, column |-> column_idx,
                       width |-> wh[1], height |-> wh[2]]
                 ELSE best)

\* the inner loop of _locate_cells over the rows of one column
RECURSIVE locate_rows(_, _, _, _)
locate_rows(table, column_idx, row_idx, best) ==
    IF row_idx >= Len(table[column_idx + 1]) THEN best
    ELSE LET wh == grow_selection(table, row_idx, column_idx)
         IN  locate_rows(table, column_idx, row_idx + 1,
                 IF wh[1] * wh[2] > best.width * best.height
                 THEN [found |-> TRUE, row |-> row_idx, column |-> column_idx,
                       width |-> wh[1], height |-> wh[2]]
                 ELSE best)

\* the pruning check, had it left the length of the column out of the
\* bound
locate_prune_counts_columns(table, column_idx, best) ==
    (Len(table) - column_idx) < best.width * best.height

\* the pruning check that ends the outer loop of _locate_cells
locate_prune(table, column_idx, best) ==
    (Len(table) - column_idx) * Len(table[column_idx + 1])
        < best.width * best.height

\* the outer loop of _locate_cells over the columns
RECURSIVE locate_columns(_, _, _)
locate_columns(table, column_idx, best) ==
    IF column_idx >= Len(table) THEN best
    ELSE IF locate_prune(table, column_idx, best) THEN best
    ELSE locate_columns(table, column_idx + 1,
                        locate_rows(table, column_idx, 0, best))

\* _locate_cells, had it kept among the candidates of the best area the
\* one of the lowest row and then of the lowest column
locate_cells_lowest_row(table) ==
    LET anchors == (0..(Len(table[1]) - 1)) \X (0..(Len(table) - 1))
        area(a) == grow_selection(table, a[1], a[2])[1]
                       * grow_selection(table, a[1], a[2])[2]
        best == CHOOSE a \in anchors :
                    \A b \in anchors :
                        \/ area(a) > area(b)
                        \/ area(a) = area(b) /\ a[1] < b[1]
                        \/ area(a) = area(b) /\ a[1] = b[1] /\ a[2] <= b[2]
        wh == grow_selection(table, best[1], best[2])
    IN  IF area(best) > 0
        THEN Some([top |-> best[1], left |-> best[2],
                   bottom |-> best[1] + wh[2], right |-> best[2] + wh[1]])
        ELSE None

\* Optional[_Rect]
locate_cells(table) ==
    LET best == locate_columns(table, 0, NoBest)
    IN  IF best.found
        THEN Some([top |-> best.row, left |-> best.column,
                   bottom |-> best.row + best.height,
                   right |-> best.column + best.width])
        ELSE None

\* the outer loop of _locate_cells without its pruning check: every column
\* is searched
RECURSIVE locate_columns_unpruned(_, _, _)
locate_columns_unpruned(table, column_idx, best) ==
    IF column_idx >= Len(table) THEN best
    ELSE locate_columns_unpruned(table, column_idx + 1,
                                 locate_rows(table, column_idx, 0, best))

\* _locate_cells without its pruning check
locate_cells_unpruned(table) ==
    LET best == locate_columns_unpruned(table, 0, NoBest)
    IN  IF best.found
        THEN Some([top |-> best.row, left |-> best.column,
                   bottom |-> best.row + best.height,
                   right |-> best.column + best.width])
        ELSE None

\* sum(map(bool, knockout['column']))
cell_count(column) ==
    Cardinality({i \in 1..Len(column) : StrTruthy(column[i])})

RECURSIVE update_cell_labels_loop(_, _, _, _)
update_cell_labels_loop(column, is_verification, row, counter) ==
    IF row >= Len(column) THEN column
    ELSE IF StrTruthy(column[row + 1])
         THEN update_cell_labels_loop(
                  [column EXCEPT ![row + 1] =
                      Some(IF is_verification THEN Str(row + 1)
                                              ELSE clone_label(counter))],
                  is_verification, row + 1, counter + 1)
         ELSE update_cell_labels_loop(column, is_verification, row + 1, counter)

\* _update_cell_labels, had it returned the labels of the occupied cells only
update_cell_labels_compact(column, is_verification) ==
    LET labels == update_cell_labels_loop(column, is_verification, 0, 0)
    IN  SelectSeq(labels, LAMBDA label : label # None)

\* _update_cell_labels, had it written row numbers into every column
update_cell_labels_rows(column, is_verification) ==
    update_cell_labels_loop(column, TRUE, 0, 0)

update_cell_labels(column, is_verification) ==
    update_cell_labels_loop(column, is_verification, 0, 0)

\* knockout['headers'][key] raises KeyError for one of the knockouts
group_by_raises(samplesheet, key) ==
    \E i \in 1..Len(samplesheet.knockouts) :
        key \notin DOMAIN samplesheet.knockouts[i].headers

\* group_by, had it counted a user split as an automatic one
group_by_split_counts_user(old_split, is_verification) ==
    [auto |-> is_verification \/ old_split.user, user |-> FALSE]

\* group_by, had it left the user split alone
group_by_split_keeps_user(old_split, is_verification) ==
    [auto |-> is_verification, user |-> old_split.user]

\* the split flags group_by writes, given "is_verification"
group_by_split(old_split, is_verification) ==
    [auto |-> is_verification, user |-> FALSE]

\* group_by without the removal of the count 0
group_by_counts_empty(samplesheet, key) ==
    LET kos == samplesheet.knockouts
        group(i) == kos[i].headers[key]
        cell_counts(g) ==
            {cell_count(kos[j].column) : j \in {j \in 1..Len(kos) : group(j) = g}}
        is_verification(i) == Cardinality(cell_counts(group(i))) > 1
    IN  [samplesheet EXCEPT
            !.group_by = key,
            !.knockouts =
                [i \in 1..Len(kos) |->
                    [kos[i] EXCEPT
                        !.group = group(i),
                        !.split = group_by_split(kos[i].split, is_verification(i)),
                        !.column = update_cell_labels(kos[i].column,
                                                      is_verification(i))]]]

group_by(samplesheet, key) ==
    LET kos == samplesheet.knockouts
        group(i) == kos[i].headers[key]
        cell_counts(g) ==
            {cell_count(kos[j].column) : j \in {j \in 1..Len(kos) : group(j) = g}}
        is_verification(i) == Cardinality(cell_counts(group(i)) \ {0}) > 1
    IN  [samplesheet EXCEPT
            !.group_by = key,
            !.knockouts =
                [i \in 1..Len(kos) |->
                    [kos[i] EXCEPT
                        !.group = group(i),
                        !.split = group_by_split(kos[i].split, is_verification(i)),
                        !.column = update_cell_labels(kos[i].column,
                                                      is_verification(i))]]]

\* set_user_split without the test of the group
set_user_split_everywhere(samplesheet, group, value) ==
    [samplesheet EXCEPT
        !.knockouts =
            [i \in 1..Len(samplesheet.knockouts) |->
                [samplesheet.knockouts[i] EXCEPT !.split.user = value]]]

\* set_user_split, had it stopped at the first column of the group
set_user_split_first(samplesheet, group, value) ==
    [samplesheet EXCEPT
        !.knockouts =
            [i \in 1..Len(samplesheet.knockouts) |->
                IF /\ samplesheet.knockouts[i].group = group
                   /\ \A j \in 1..(i - 1) : samplesheet.knockouts[j].group # group
                THEN [samplesheet.knockouts[i] EXCEPT !.split.user = value]
                ELSE samplesheet.knockouts[i]]]

set_user_split(samplesheet, group, value) ==
    [samplesheet EXCEPT
        !.knockouts =
            [i \in 1..Len(samplesheet.knockouts) |->
                IF samplesheet.knockouts[i].group = group
                THEN [samplesheet.knockouts[i] EXCEPT !.split.user = value]
                ELSE samplesheet.knockouts[i]]]

\* _group: the name under which the column is listed, a text or, for a
\* column that is not split, the group as it is
knockout_group(knockout) ==
    IF /\ knockout.split.auto \/ knockout.split.user
       /\ knockout.group # knockout.headers["knockout"]
    THEN Txt(CellText(knockout.headers["knockout"]) \o << " ", "(" >>
                 \o CellText(knockout.group) \o << ")" >>)
    ELSE knockout.group

\* the loop of get_groups, had it not looked at "observed"
RECURSIVE get_groups_loop_repeats(_, _, _)
get_groups_loop_repeats(knockouts, k, result) ==
    IF k > Len(knockouts) THEN result
    ELSE LET knockout == knockouts[k]
         IN  get_groups_loop_repeats(knockouts, k + 1,
                 Append(result, << knockout_group(knockout),
                                   knockout.split.auto \/ knockout.split.user >>))

\* the loop of get_groups over the knockouts from the k-th on; the labels
\* of result are the set "observed"
RECURSIVE get_groups_loop(_, _, _)
get_groups_loop(knockouts, k, result) ==
    IF k > Len(knockouts) THEN result
    ELSE LET knockout == knockouts[k]
             group == knockout_group(knockout)
             observed == {result[n][1] : n \in 1..Len(result)}
         IN  get_groups_loop(knockouts, k + 1,
                 IF group \notin observed
                 THEN Append(result, << group,
                                        knockout.split.auto \/ knockout.split.user >>)
                 ELSE result)

\* List[Tuple[str, bool]]
get_groups(samplesheet) == get_groups_loop(samplesheet.knockouts, 1, << >>)

get_group(samplesheet, group) ==
    SelectSeq(samplesheet.knockouts,
              LAMBDA knockout : knockout_group(knockout) = group)

\* the header keys load reads for a rectangle whose first row is top
\* (0-based): key HEADERS[4 - offset] for each offset with top - offset >= 0
load_header_keys(top) ==
    {HEADERS[4 - offset] : offset \in {o \in 1..3 : top - o >= 0}}

\* the knockouts list load builds for the columns left .. left + n - 1
RECURSIVE load_knockouts(_, _, _)
load_knockouts(table, cells, n) ==
    IF n = 0 THEN << >>
    ELSE LET knockouts == load_knockouts(table, cells, n - 1)
             column_idx == cells.left + n - 1
             column == table[column_idx + 1]
             header(key) ==
                 LET offset == CHOOSE o \in 1..3 : HEADERS[4 - o] = key
                     value == column[cells.top - offset + 1]
                 IN  IF ~CellTruthy(value) /\ knockouts # << >>
                     THEN knockouts[Len(knockouts)].headers[key]
                     ELSE value
             named == [key \in load_header_keys(cells.top) |-> header(key)]
             headers ==
                 [key \in DOMAIN named \cup {"id"} |->
                     IF key = "id"
                     THEN Txt(<< "[" >> \o column_label(column_idx + 1)
                                  \o << "]", " " >> \o CellText(named["knockout"]))
                     ELSE named[key]]
         IN  Append(knockouts,
                 [column |-> [r \in 1..(cells.bottom - cells.top) |->
                                 IF CellTruthy(column[cells.top + r])
                                 THEN Some(DummyValue) ELSE None],
                  headers |-> headers,
                  group |-> Txt(Str(column_idx)),
                  split |-> [auto |-> FALSE, user |-> FALSE]])

\* load, had it asked for all three header rows above the rectangle
load_raises_short_headers(table) ==
    \/ locate_cells(table) = None
    \/ locate_cells(table)[1].top < 3

\* load raises SampleSheetError: no rectangle, or its top row is row 0
load_raises(table) ==
    \/ locate_cells(table) = None
    \/ locate_cells(table)[1].top = 0

\* HEADERS[-cells.top:]
load_headers(top) == SubSeq(HEADERS, Max(1, 4 - top), 3)

load(table) ==
    LET cells == locate_cells(table)[1]
        knockouts == load_knockouts(table, cells, cells.right - cells.left)
        samplesheet ==
            [headers |-> load_headers(cells.top),
             knockouts |-> knockouts,
             width |-> Len(knockouts),
             height |-> cells.bottom - Max(0, cells.top - 3),
             group_by |-> "id"]
    IN  group_by(samplesheet, samplesheet.headers[1])

----------------------------------------------------------------------------
(* src/state/miseq.py.  A sequencing file is [ext, data]: its extension    *)
(* and, for a file json.load can read, Some of its "samples" object: a     *)
(* function from sample name to [targets |-> a function from target name   *)
(* to [reads, reads_wildtype, reads_mutant, peaks]], peaks being the       *)
(* sequence of the << indel size, count >> members in file order.          *)

\* int(text) for an optionally signed decimal numeral
RECURSIVE IntOfDigits(_)
IntOfDigits(text) ==
    IF text = << >> THEN 0
    ELSE 10 * IntOfDigits(SubSeq(text, 1, Len(text) - 1))
         + (CHOOSE d \in 0..9 : DigitChars[d + 1] = text[Len(text)])

IsNumeral(text) ==
    LET digits == IF text # << >> /\ text[1] = "-" THEN Tail(text) ELSE text
    IN  digits # << >> /\ \A i \in 1..Len(digits) : digits[i] \in Range(DigitChars)

IntOf(text) ==
    IF text[1] = "-" THEN 0 - IntOfDigits(Tail(text)) ELSE IntOfDigits(text)

Abs(n) == IF n < 0 THEN 0 - n ELSE n

\* a float pct = num / den with den > 0, kept exact
Pct(num, den) == [num |-> num, den |-> den]

PctLess(p, q) == p.num * q.den < q.num * p.den

\* list.sort(key=pct, reverse=True): stable, greatest first
RECURSIVE sort_peaks(_)
sort_peaks(peaks) ==
    IF peaks = << >> THEN << >>
    ELSE LET rest == sort_peaks(SubSeq(peaks, 1, Len(peaks) - 1))
             last == peaks[Len(peaks)]
             \* last goes after every peak that is not smaller than it
             pos == Cardinality({i \in 1..Len(rest) :
                                     ~PctLess(rest[i].pct, last.pct)})
         IN  SubSeq(rest, 1, pos) \o << last >> \o SubSeq(rest, pos + 1, Len(rest))

InFrameComment == << "I", "n", "-", "f", "r", "a", "m", "e" >>

\* the Result load_json builds for one sample and target
load_json_result(sample_name, target_name, stats) ==
    LET peaks ==
            sort_peaks([i \in 1..Len(stats.peaks) |->
                [indel |-> IntOf(stats.peaks[i][1]),
                 inframe |-> Abs(IntOf(stats.peaks[i][1])) % 3 = 0,
                 pct |-> Pct(100 * stats.peaks[i][2], stats.reads)]])
    IN  [target |-> target_name,
         index |-> IntOf(sample_name),
         reads |-> stats.reads,
         wt |-> stats.reads_wildtype,
         indel |-> stats.reads_mutant,
         picked |-> FALSE,
         peaks |-> peaks,
         comment |-> IF \E i \in 1..Len(peaks) : peaks[i].inframe
                     THEN InFrameComment ELSE << >>]

\* json.load fails, int() of a sample name or of a peak fails, or a peak
\* is divided by reads = 0
load_json_raises(file) ==
    \/ file.data = None
    \/ \E s \in DOMAIN file.data[1] :
          \/ ~IsNumeral(s)
          \/ \E t \in DOMAIN file.data[1][s].targets :
                LET stats == file.data[1][s].targets[t]
                IN  \E i \in 1..Len(stats.peaks) :
                        ~IsNumeral(stats.peaks[i][1]) \/ stats.reads = 0

\* sample names are taken to be distinct as integers, so that the order of
\* the samples in the file does not matter
load_json(file) ==
    LET samples == file.data[1]
        targets == UNION {DOMAIN samples[s].targets : s \in DOMAIN samples}
        having(t) == {s \in DOMAIN samples : t \in DOMAIN samples[s].targets}
    IN  [t \in targets |->
            [i \in {IntOf(s) : s \in having(t)} |->
                LET s == CHOOSE s \in having(t) : IntOf(s) = i
                IN  load_json_result(s, t, samples[s].targets[t])]]

\* miseq.load: only .json files are modelled; any other extension but
\* .xlsx raises NotImplementedError
miseq_load_raises(file) ==
    \/ file.ext # ".json"
    \/ load_json_raises(file)

\* miseq[target][index] raises KeyError
miseq_lookup_raises(miseq, target, index) ==
    \/ target \notin DOMAIN miseq
    \/ index \notin DOMAIN miseq[target]

is_picked(miseq, target, index) == miseq[target][index].picked

toggle_picked(miseq, target, index) ==
    [miseq EXCEPT ![target][index].picked = ~is_picked(miseq, target, index)]

set_picked(miseq, target, index, picked) ==
    [miseq EXCEPT ![target][index].picked = picked]

set_comment(miseq, target, index, comment) ==
    [miseq EXCEPT ![target][index].comment = comment]

----------------------------------------------------------------------------
(* src/common.py: label_to_key.  A key is [letters, number]; the labels    *)
(* are made of capital letters and digits.                                 *)

\* str.upper() of one character
UpperChar(c) ==
    IF \E i \in 1..26 : LowerChars[i] = c
    THEN UpperChars[CHOOSE i \in 1..26 : LowerChars[i] = c]
    ELSE c

\* the 0-based index of the first digit of value, or len(value)
first_digit(value) ==
    Cardinality({i \in 1..Len(value) :
                    \A j \in 1..i : value[j] \notin Range(DigitChars)})

\* label_to_key raises ValueError: no digit, or int() fails
label_to_key_raises(value) ==
    \/ first_digit(value) = Len(value)
    \/ ~IsNumeral(SubSeq(value, first_digit(value) + 1, Len(value)))

label_to_key(value) ==
    LET idx == first_digit(value)
    IN  [letters |-> [i \in 1..idx |-> UpperChar(value[i])],
         number |-> IntOf(SubSeq(value, idx + 1, Len(value)))]

\* a < b for two str of capital letters
RECURSIVE StrLess(_, _)
StrLess(a, b) ==
    IF b = << >> THEN FALSE
    ELSE IF a = << >> THEN TRUE
    ELSE IF a[1] = b[1] THEN StrLess(Tail(a), Tail(b))
    ELSE (CHOOSE i \in 1..26 : UpperChars[i] = a[1])
             < (CHOOSE i \in 1..26 : UpperChars[i] = b[1])

\* a < b for two keys: tuples are compared item by item
KeyLess(a, b) ==
    \/ StrLess(a.letters, b.letters)
    \/ a.letters = b.letters /\ a.number < b.number

----------------------------------------------------------------------------
(* src/state/core.py: class State.  self is the record of its attributes.  *)

\* State.__init__
NewState ==
    [samplesheet |-> [knockouts |-> << >>, headers |-> << >>,
                      width |-> 0, height |-> 0, group_by |-> "id"],
     miseq |-> << >>,
     ko_mapping |-> << >>,
     default_ko_mapping |-> << >>,
     undo_history |-> << >>,
     redo_history |-> << >>,
     saved_state |-> None]

Return(self) == [self |-> self, raised |-> FALSE]

Raise(self) == [self |-> self, raised |-> TRUE]

store_state(self) ==
    [samplesheet |-> self.samplesheet,
     miseq |-> self.miseq,
     ko_mapping |-> self.ko_mapping,
     default_ko_mapping |-> self.default_ko_mapping]

\* _append_undo_history without the clear() of the redo history
append_undo_history_keeps_redo(self, state) ==
    [self EXCEPT !.undo_history = Append(self.undo_history, state)]

append_undo_history(self, state) ==
    [self EXCEPT !.redo_history = << >>,
                 !.undo_history = Append(self.undo_history, state)]

replace_state(self, state) ==
    [self EXCEPT !.samplesheet = state.samplesheet,
                 !.miseq = state.miseq,
                 !.ko_mapping = state.ko_mapping,
                 !.default_ko_mapping = state.default_ko_mapping]

\* list.pop(): the list without its last element
Popped(list) == SubSeq(list, 1, Len(list) - 1)

Last(list) == list[Len(list)]

\* undo without the append to the redo history
undo_forgets(self) ==
    IF self.undo_history # << >>
    THEN Return(replace_state(
             [self EXCEPT !.undo_history = Popped(self.undo_history)],
             Last(self.undo_history)))
    ELSE Return(self)

undo(self) ==
    IF self.undo_history # << >>
    THEN Return(replace_state(
             [self EXCEPT !.redo_history = Append(self.redo_history, store_state(self)),
                          !.undo_history = Popped(self.undo_history)],
             Last(self.undo_history)))
    ELSE Return(self)

\* redo, had it stored the snapshot after replacing it
redo_stores_late(self) ==
    IF self.redo_history # << >>
    THEN Return(replace_state(
             [self EXCEPT !.undo_history =
                              Append(self.undo_history, Last(self.redo_history)),
                          !.redo_history = Popped(self.redo_history)],
             Last(self.redo_history)))
    ELSE Return(self)

redo(self) ==
    IF self.redo_history # << >>
    THEN Return(replace_state(
             [self EXCEPT !.undo_history = Append(self.undo_history, store_state(self)),
                          !.redo_history = Popped(self.redo_history)],
             Last(self.redo_history)))
    ELSE Return(self)

samplesheet_target_names(self) ==
    {self.samplesheet.knockouts[i].headers["knockout"] :
        i \in 1..Len(self.samplesheet.knockouts)}

miseq_target_names(self) == DOMAIN self.miseq

\* the inner loop of _init_ko_mapping, had it asked for a target that is a
\* prefix of the knockout name
RECURSIVE candidate_loop_target_is_prefix(_, _, _, _, _)
candidate_loop_target_is_prefix(order, pos, used_miseq_targets, key, candidate) ==
    IF pos > Len(order) THEN candidate
    ELSE LET target == order[pos]
         IN  candidate_loop_target_is_prefix(order, pos + 1, used_miseq_targets, key,
                 IF /\ target \notin used_miseq_targets
                    /\ StartsWith(Normalize(key.s), Normalize(target))
                    /\ (~StrTruthy(candidate) \/ Len(candidate[1]) > Len(target))
                 THEN Some(target)
                 ELSE candidate)

\* the inner loop of _init_ko_mapping for one key: order is the order in
\* which the set "set(miseq_targets) - used_miseq_targets" is iterated,
\* pos the next position in it
RECURSIVE candidate_loop(_, _, _, _, _)
candidate_loop(order, pos, used_miseq_targets, key, candidate) ==
    IF pos > Len(order) THEN candidate
    ELSE LET target == order[pos]
         IN  candidate_loop(order, pos + 1, used_miseq_targets, key,
                 IF /\ target \notin used_miseq_targets
                    /\ StartsWith(Normalize(target), Normalize(key.s))
                    /\ (~StrTruthy(candidate) \/ Len(candidate[1]) > Len(target))
                 THEN Some(target)
                 ELSE candidate)

\* the targets the second loop of _init_ko_mapping may no longer hand out
used_targets(names, miseq_targets) == {target \in miseq_targets : Txt(target) \in names}

\* _init_ko_mapping raises: sorted() compares a number with a text
\* (TypeError), or the second loop calls lower() on a number (AttributeError)
init_ko_mapping_raises(self) ==
    LET miseq_targets == miseq_target_names(self)
        names == samplesheet_target_names(self)
    IN  \/ \E key1, key2 \in names : key1.isnum /\ ~key2.isnum
        \/ /\ \E key \in names : key.isnum
           /\ miseq_targets \ used_targets(names, miseq_targets) # {}

\* _init_ko_mapping, had it kept the cells of the mapping the user had set
init_ko_mapping_keeps_edits(self, order) ==
    LET miseq_targets == miseq_target_names(self)
        names == samplesheet_target_names(self)
        used_miseq_targets == used_targets(names, miseq_targets)
        exact == [key \in names |->
                     IF ~key.isnum /\ key.s \in miseq_targets
                     THEN Some(key.s) ELSE None]
        default_ko_mapping ==
            [key \in names |->
                IF ~StrTruthy(exact[key])
                THEN LET candidate ==
                             candidate_loop(order, 1, used_miseq_targets, key, None)
                     IN  IF StrTruthy(candidate) THEN candidate ELSE exact[key]
                ELSE exact[key]]
    IN  [self EXCEPT !.default_ko_mapping = default_ko_mapping,
                     !.ko_mapping =
                         [key \in names |->
                             IF key \in DOMAIN self.ko_mapping
                             THEN self.ko_mapping[key]
                             ELSE default_ko_mapping[key]]]

\* order: the iteration order of the set of sequencing target names
init_ko_mapping(self, order) ==
    LET miseq_targets == miseq_target_names(self)
        names == samplesheet_target_names(self)
        used_miseq_targets == used_targets(names, miseq_targets)
        exact == [key \in names |->
                     IF ~key.isnum /\ key.s \in miseq_targets
                     THEN Some(key.s) ELSE None]
        default_ko_mapping ==
            [key \in names |->
                IF ~StrTruthy(exact[key])
                THEN LET candidate ==
                             candidate_loop(order, 1, used_miseq_targets, key, None)
                     IN  IF StrTruthy(candidate) THEN candidate ELSE exact[key]
                ELSE exact[key]]
    IN  [self EXCEPT !.default_ko_mapping = default_ko_mapping,
                     !.ko_mapping = default_ko_mapping]

samplesheet_load(self, table, order) ==
    LET state == store_state(self)
    IN  IF load_raises(table) THEN Raise(self)
        ELSE LET loaded == [self EXCEPT !.samplesheet = load(table)]
             IN  IF init_ko_mapping_raises(loaded) THEN Raise(loaded)
                 ELSE Return(append_undo_history(init_ko_mapping(loaded, order),
                                                 state))

samplesheet_user_split(self, group, value) ==
    LET state == store_state(self)
    IN  Return(append_undo_history(
            [self EXCEPT !.samplesheet = set_user_split(self.samplesheet, group, value)],
            state))

samplesheet_group_by(self, key) ==
    LET state == store_state(self)
    IN  IF group_by_raises(self.samplesheet, key) THEN Raise(self)
        ELSE Return(append_undo_history(
                 [self EXCEPT !.samplesheet = group_by(self.samplesheet, key)],
                 state))

miseq_load(self, file, order) ==
    LET state == store_state(self)
    IN  IF miseq_load_raises(file) THEN Raise(self)
        ELSE LET loaded == [self EXCEPT !.miseq = load_json(file)]
             IN  IF init_ko_mapping_raises(loaded) THEN Raise(loaded)
                 ELSE Return(append_undo_history(init_ko_mapping(loaded, order),
                                                 state))

miseq_toggle_picked(self, target, index) ==
    LET state == store_state(self)
    IN  IF miseq_lookup_raises(self.miseq, target, index) THEN Raise(self)
        ELSE Return(append_undo_history(
                 [self EXCEPT !.miseq = toggle_picked(self.miseq, target, index)],
                 state))

miseq_set_comment(self, target, index, comment) ==
    LET state == store_state(self)
    IN  IF miseq_lookup_raises(self.miseq, target, index) THEN Raise(self)
        ELSE Return(append_undo_history(
                 [self EXCEPT !.miseq = set_comment(self.miseq, target, index, comment)],
                 state))

\* the dict of mapping_set without the clearing of the other holders
new_mapping_keeps_holders(ko_mapping, samplesheet, miseq) ==
    [key \in DOMAIN ko_mapping |->
        IF key = samplesheet THEN miseq ELSE ko_mapping[key]]

\* the dict mapping_set builds; miseq is an Optional[str]
new_mapping(ko_mapping, samplesheet, miseq) ==
    [key \in DOMAIN ko_mapping |->
        IF key = samplesheet THEN miseq
        ELSE IF ko_mapping[key] = miseq THEN None ELSE ko_mapping[key]]

\* mapping_set without the test for an unchanged value
mapping_set_always_pushes(self, samplesheet, miseq) ==
    IF samplesheet \notin DOMAIN self.ko_mapping THEN Raise(self)
    ELSE Return([append_undo_history(self, store_state(self)) EXCEPT
                    !.ko_mapping = new_mapping(self.ko_mapping, samplesheet, miseq)])

mapping_set(self, samplesheet, miseq) ==
    IF samplesheet \notin DOMAIN self.ko_mapping THEN Raise(self)
    ELSE IF self.ko_mapping[samplesheet] # miseq
         THEN Return([append_undo_history(self, store_state(self)) EXCEPT
                         !.ko_mapping = new_mapping(self.ko_mapping, samplesheet, miseq)])
         ELSE Return(self)

\* load_state, had it taken the marker from the snapshot it replaces
load_state_marks_old(self, file) ==
    IF ~file.exists THEN Raise(self)
    ELSE LET state == store_state(self)
         IN  IF file.pickle = None THEN Raise(self)
             ELSE IF file.bad_item THEN Raise(replace_state(self, file.pickle[1]))
             ELSE Return([append_undo_history(replace_state(self, file.pickle[1]),
                                              state)
                             EXCEPT !.saved_state = Some(state)])

\* a project file is [exists, pickle, bad_item]: whether open() finds it;
\* Some of the snapshot pickle.loads returns, or None when pickle.loads
\* raises; and whether the dict it returns has, after the attributes of the
\* snapshot, an item whose key is not a str, at which setattr raises
load_state(self, file) ==
    IF ~file.exists THEN Raise(self)
    ELSE LET state == store_state(self)
         IN  IF file.pickle = None THEN Raise(self)
             ELSE IF file.bad_item THEN Raise(replace_state(self, file.pickle[1]))
             ELSE LET loaded == append_undo_history(
                                    replace_state(self, file.pickle[1]), state)
                  IN  Return([loaded EXCEPT !.saved_state = Some(store_state(loaded))])

\* writable: whether open(filename, 'wb') succeeds
save_state(self, writable) ==
    LET state == store_state(self)
    IN  IF ~writable THEN Raise(self)
        ELSE Return([self EXCEPT !.saved_state = Some(state)])

is_saved(self) == self.saved_state = Some(store_state(self))

\* clones_get_group raises: KeyError for a knockout the mapping has not or
\* a target the sequencing output has not, ValueError from label_to_key
clones_get_group_raises(self, group) ==
    LET knockouts == get_group(self.samplesheet, group)
    IN  \E k \in 1..Len(knockouts) :
            LET ss_target == knockouts[k].headers["knockout"]
            IN  \/ ss_target \notin DOMAIN self.ko_mapping
                \/ /\ self.ko_mapping[ss_target] # None
                   /\ self.ko_mapping[ss_target][1] \notin DOMAIN self.miseq
                \/ \E index \in 1..Len(knockouts[k].column) :
                      /\ knockouts[k].column[index] # None
                      /\ label_to_key_raises(knockouts[k].column[index][1])

\* the loop of clones_get_group over the rows of one column.  clones is
\* the dict in the order in which its keys were inserted, as the sequence
\* of its values; miseq is the dict of the results of the mapped target
RECURSIVE clones_rows(_, _, _, _, _)
clones_rows(clones, column, index, ss_target, miseq) ==
    IF index > Len(column) THEN clones
    ELSE IF column[index] = None
    THEN clones_rows(clones, column, index + 1, ss_target, miseq)
    ELSE LET key == column[index][1]
             found == {n \in 1..Len(clones) : clones[n].label = key}
             at == IF found = {} THEN Len(clones) + 1 ELSE CHOOSE n \in found : TRUE
             clone == IF found = {}
                      THEN [label |-> key, comment |-> None, knockouts |-> << >>]
                      ELSE clones[at]
             result == IF index \in DOMAIN miseq THEN Some(miseq[index]) ELSE None
             stored == [clone EXCEPT
                           !.knockouts = (ss_target :> result) @@ clone.knockouts]
         IN  clones_rows([n \in 1..Max(at, Len(clones)) |->
                             IF n = at THEN stored ELSE clones[n]],
                         column, index + 1, ss_target, miseq)

\* the loop of clones_get_group, had it taken the results of the target
\* that has the name of the knockout
RECURSIVE clones_columns_by_name(_, _, _, _)
clones_columns_by_name(self, knockouts, k, clones) ==
    IF k > Len(knockouts) THEN clones
    ELSE LET ss_target == knockouts[k].headers["knockout"]
             miseq == IF ss_target.s \in DOMAIN self.miseq
                      THEN self.miseq[ss_target.s] ELSE << >>
         IN  clones_columns_by_name(self, knockouts, k + 1,
                 clones_rows(clones, knockouts[k].column, 1, ss_target, miseq))

\* the loop of clones_get_group over the columns of the group
RECURSIVE clones_columns(_, _, _, _)
clones_columns(self, knockouts, k, clones) ==
    IF k > Len(knockouts) THEN clones
    ELSE LET ss_target == knockouts[k].headers["knockout"]
             ms_target == self.ko_mapping[ss_target]
             miseq == IF ms_target = None THEN << >> ELSE self.miseq[ms_target[1]]
         IN  clones_columns(self, knockouts, k + 1,
                 clones_rows(clones, knockouts[k].column, 1, ss_target, miseq))

\* sorted(clones, key=label_to_key), had it left the list as it was
sorted_clones_unsorted(clones) == clones

\* sorted(clones, key=label_to_key): stable, least first
RECURSIVE sorted_clones(_)
sorted_clones(clones) ==
    IF clones = << >> THEN << >>
    ELSE LET rest == sorted_clones(SubSeq(clones, 1, Len(clones) - 1))
             last == clones[Len(clones)]
             \* last goes after every clone whose key is not greater
             pos == Cardinality({i \in 1..Len(rest) :
                        ~KeyLess(label_to_key(last.label),
                                 label_to_key(rest[i].label))})
         IN  SubSeq(rest, 1, pos) \o << last >> \o SubSeq(rest, pos + 1, Len(rest))

clones_get_group(self, group) ==
    sorted_clones(clones_columns(self, get_group(self.samplesheet, group), 1, << >>))

----------------------------------------------------------------------------
(* The State object as Python holds it.  The attributes samplesheet,       *)
(* miseq, ko_mapping and default_ko_mapping are references to objects, a   *)
(* snapshot is a dict of such references (_store_state copies none of the  *)
(* objects), and the histories and the saved marker hold snapshots.  Here  *)
(* self has the field heap, the sequence of the objects made so far, and   *)
(* a reference is an index into it: the attributes and the snapshots hold  *)
(* indices.  store_state, append_undo_history, replace_state, undo, redo   *)
(* and save_state are the operators above, applied to such a self.         *)

\* copy.deepcopy, had it returned its argument
deepcopy_returns_argument(heap, at) == [heap |-> heap, at |-> at]

\* copy.deepcopy(object): a new object of the same value
deepcopy(heap, at) == [heap |-> Append(heap, heap[at]), at |-> Len(heap) + 1]

\* a dict or list display, dict(), load(): a new object of the value
new_object(heap, value) == [heap |-> Append(heap, value), at |-> Len(heap) + 1]

\* State.__init__
NewRefs ==
    [heap |-> << NewState.samplesheet, NewState.miseq,
                 NewState.ko_mapping, NewState.default_ko_mapping >>,
     samplesheet |-> 1,
     miseq |-> 2,
     ko_mapping |-> 3,
     default_ko_mapping |-> 4,
     undo_history |-> << >>,
     redo_history |-> << >>,
     saved_state |-> None]

\* the values of the objects a snapshot refers to
snapshot_values(heap, state) ==
    [samplesheet |-> heap[state.samplesheet],
     miseq |-> heap[state.miseq],
     ko_mapping |-> heap[state.ko_mapping],
     default_ko_mapping |-> heap[state.default_ko_mapping]]

\* the values of the attributes of self
attribute_values(self) ==
    [NewState EXCEPT !.samplesheet = self.heap[self.samplesheet],
                     !.miseq = self.heap[self.miseq],
                     !.ko_mapping = self.heap[self.ko_mapping],
                     !.default_ko_mapping = self.heap[self.default_ko_mapping]]

\* the assignments a function makes on the object at "at", which take
\* its value to "value"
assigned(heap, at, value) == [heap EXCEPT ![at] = value]

\* default_ko_mapping = dict.fromkeys(...) and dict(default_ko_mapping)
\* are two new objects
ref_init_ko_mapping(self, order) ==
    CHOOSE result \in
        {LET default_ko_mapping == new_object(self.heap, inferred.default_ko_mapping)
             ko_mapping == new_object(default_ko_mapping.heap, inferred.ko_mapping)
         IN  [self EXCEPT !.heap = ko_mapping.heap,
                          !.default_ko_mapping = default_ko_mapping.at,
                          !.ko_mapping = ko_mapping.at] :
            inferred \in {init_ko_mapping(attribute_values(self), order)}} : TRUE

\* loaded is self after "self.samplesheet = samplesheet.load(filename)"
ref_samplesheet_load(self, table, order) ==
    LET state == store_state(self)
    IN  IF load_raises(table) THEN Raise(self)
        ELSE CHOOSE result \in
                 {IF init_ko_mapping_raises(attribute_values(loaded))
                  THEN Raise(loaded)
                  ELSE Return(append_undo_history(ref_init_ko_mapping(loaded, order),
                                                  state)) :
                     loaded \in
                         {[self EXCEPT !.heap = sheet.heap, !.samplesheet = sheet.at] :
                             sheet \in {new_object(self.heap, load(table))}}} : TRUE

\* set_user_split copies the sheet, assigns to the copy and returns it
ref_samplesheet_user_split(self, group, value) ==
    LET state == store_state(self)
        copy == deepcopy(self.heap, self.samplesheet)
        heap == assigned(copy.heap, copy.at,
                         set_user_split(copy.heap[copy.at], group, value))
    IN  Return(append_undo_history(
            [self EXCEPT !.heap = heap, !.samplesheet = copy.at], state))

ref_samplesheet_group_by(self, key) ==
    LET state == store_state(self)
    IN  IF group_by_raises(self.heap[self.samplesheet], key) THEN Raise(self)
        ELSE LET copy == deepcopy(self.heap, self.samplesheet)
                 heap == assigned(copy.heap, copy.at,
                                  group_by(copy.heap[copy.at], key))
             IN  Return(append_undo_history(
                     [self EXCEPT !.heap = heap, !.samplesheet = copy.at], state))

\* loaded is self after "self.miseq = miseq.load(filename)"
ref_miseq_load(self, file, order) ==
    LET state == store_state(self)
    IN  IF miseq_load_raises(file) THEN Raise(self)
        ELSE CHOOSE result \in
                 {IF init_ko_mapping_raises(attribute_values(loaded))
                  THEN Raise(loaded)
                  ELSE Return(append_undo_history(ref_init_ko_mapping(loaded, order),
                                                  state)) :
                     loaded \in
                         {[self EXCEPT !.heap = output.heap, !.miseq = output.at] :
                             output \in {new_object(self.heap, load_json(file))}}} : TRUE

ref_miseq_toggle_picked(self, target, index) ==
    LET state == store_state(self)
    IN  IF miseq_lookup_raises(self.heap[self.miseq], target, index) THEN Raise(self)
        ELSE LET copy == deepcopy(self.heap, self.miseq)
                 heap == assigned(copy.heap, copy.at,
                                  toggle_picked(copy.heap[copy.at], target, index))
             IN  Return(append_undo_history(
                     [self EXCEPT !.heap = heap, !.miseq = copy.at], state))

ref_miseq_set_comment(self, target, index, comment) ==
    LET state == store_state(self)
    IN  IF miseq_lookup_raises(self.heap[self.miseq], target, index) THEN Raise(self)
        ELSE LET copy == deepcopy(self.heap, self.miseq)
                 heap == assigned(copy.heap, copy.at,
                                  set_comment(copy.heap[copy.at], target, index,
                                              comment))
             IN  Return(append_undo_history(
                     [self EXCEPT !.heap = heap, !.miseq = copy.at], state))

\* mapping_set: new_mapping is a new dict
ref_mapping_set(self, samplesheet, miseq) ==
    LET ko_mapping == self.heap[self.ko_mapping]
    IN  IF samplesheet \notin DOMAIN ko_mapping THEN Raise(self)
        ELSE IF ko_mapping[samplesheet] # miseq
             THEN LET pushed == append_undo_history(self, store_state(self))
                      made == new_object(pushed.heap,
                                         new_mapping(ko_mapping, samplesheet, miseq))
                  IN  Return([pushed EXCEPT !.heap = made.heap,
                                            !.ko_mapping = made.at])
             ELSE Return(self)

----------------------------------------------------------------------------
(* Bounds and inputs *)

\* calls other than undo and redo are taken while the undo history is
\* shorter than this
MaxUndo == 2

\* the sample sheets offered to samplesheet_load: "A" has three header
\* rows and two knockout columns of two rows, with 2 and 1 occupied cells;
\* "nogrid" has no 0/1 cell; "top0" has its 0/1 cells in the first row
SheetFiles ==
    [A |-> << << Txt(<< "E" >>), Txt(<< "P" >>), Txt(<< "a", "b" >>), Num(1), Num(1) >>,
              << Blank, Txt(<< "Q" >>), Txt(<< "a" >>), Num(1), Num(0) >> >>,
     nogrid |-> << << Txt(<< "E" >>), Txt(<< "a" >>) >> >>,
     top0 |-> << << Num(1), Num(0) >> >>]

\* the sequencing files offered to miseq_load: "A" has the targets "abd"
\* (two peaks) and "a" (no peak) in well 1; "txt" has an extension load
\* does not know; "bad" is not JSON
MiseqFiles ==
    [A |-> [ext |-> ".json",
            data |-> Some(
               << "1" >> :> [targets |->
                   (<< "a", "b", "d" >> :>
                        [reads |-> 10, reads_wildtype |-> 4, reads_mutant |-> 6,
                         peaks |-> << << << "-", "3" >>, 2 >>, << << "1" >>, 4 >> >>])
                   @@ (<< "a" >> :>
                        [reads |-> 5, reads_wildtype |-> 5, reads_mutant |-> 0,
                         peaks |-> << >>])])],
     txt |-> [ext |-> ".txt", data |-> None],
     bad |-> [ext |-> ".json", data |-> None]]

\* the keys offered to samplesheet_group_by: a label of the user interface
\* other than the one load groups by, and a key no sheet has
GroupKeys == {"knockout", "bogus"}

\* the groups offered to samplesheet_user_split: that of the first column
SplitGroups(self) ==
    {self.samplesheet.knockouts[i].group :
        i \in 1..Min(1, Len(self.samplesheet.knockouts))}

\* the << target, well >> offered to miseq_toggle_picked and
\* miseq_set_comment: a result of sequencing file "A", a target it has
\* not, and a well it has not
PickInputs ==
    {<< << "a", "b", "d" >>, 1 >>, << << "z" >>, 1 >>, << << "a", "b", "d" >>, 3 >>}

Comments == {<< "w", "t" >>}

\* the knockouts and targets offered to mapping_set: the knockouts of the
\* mapping and one it has not; no target, and a target of sequencing file "A"
MapKnockouts(self) == DOMAIN self.ko_mapping \cup {Txt(<< "z" >>)}

MapTargets == {None, Some(<< "a", "b", "d" >>)}

\* all orders in which a set can be iterated
Orders(S) ==
    {order \in [1..Cardinality(S) -> S] :
        \A i, j \in 1..Cardinality(S) : order[i] = order[j] => i = j}

\* the project files offered to load_state: "A" was saved after sheet "A"
\* and sequencing file "A" were loaded; "corrupt" does not unpickle;
\* "missing" does not exist
ProjectFiles ==
    [A |-> [exists |-> TRUE, bad_item |-> FALSE,
            pickle |-> Some(store_state(
                miseq_load(samplesheet_load(NewState, SheetFiles.A, << >>).self,
                           MiseqFiles.A,
                           << << "a" >>, << "a", "b", "d" >> >>).self))],
     corrupt |-> [exists |-> TRUE, bad_item |-> FALSE, pickle |-> None],
     missing |-> [exists |-> FALSE, bad_item |-> FALSE, pickle |-> None]]

----------------------------------------------------------------------------
(* Inputs of the name-mapping specification MapSpec *)

\* the sets of knockout names a sample sheet may carry
KnockoutNameSets ==
    {<< << "a" >> >>,
     << << "a" >>, << "a", "b" >> >>,
     << << "a", "b" >>, << "A", " ", "b" >> >>,
     << << "a" >>, << "a", "b" >>, << "A", " ", "b" >> >>}

\* the sets of target names a sequencing file may carry
TargetNameSets ==
    {{},
     {<< "a" >>},
     {<< "a", "b", "d" >>},
     {<< "a", "b", "d" >>, << "a", "b", "e" >>},
     {<< "a" >>, << "a", "b", "d" >>},
     {<< "a", "_", "b", "c" >>, << "a", "b", "d" >>}}

\* a sample sheet with one column of one occupied row per knockout name,
\* under blank extraction and amplicon rows
NamesTable(names) ==
    [i \in 1..Len(names) |-> << Blank, Blank, Txt(names[i]), Num(1) >>]

\* a sequencing file with sample "1" and the given targets, without peaks
NamesFile(targets) ==
    [ext |-> ".json",
     data |-> Some(<< "1" >> :> [targets |->
                 [t \in targets |->
                     [reads |-> 10, reads_wildtype |-> 10, reads_mutant |-> 0,
                      peaks |-> << >>]]])]

\* the project file saved after NamesTable(names) and NamesFile(targets)
\* were loaded, the set of target names being iterated in the given order
NamesProject(names, targets, order) ==
    [exists |-> TRUE, bad_item |-> FALSE,
     pickle |-> Some(store_state(
         miseq_load(samplesheet_load(NewState, NamesTable(names), << >>).self,
                    NamesFile(targets), order).self))]

----------------------------------------------------------------------------
(* Inputs of the sample-sheet specification SheetSpec *)

\* undo history bound of SheetSpec
MaxSheetUndo == 3

\* the occupancy patterns of a knockout column of six rows, with 6, 4, 1
\* and 0 occupied cells
ColumnPatterns ==
    {<< Num(1), Num(1), Num(1), Num(1), Num(1), Num(1) >>,
     << Num(1), Num(0), Num(1), Num(1), Num(0), Num(1) >>,
     << Num(0), Num(1), Num(0), Num(0), Num(0), Num(0) >>,
     << Num(0), Num(0), Num(0), Num(0), Num(0), Num(0) >>}

\* the header rows of two columns: the second column repeats or changes
\* the extraction, and names its knockout or leaves it blank
HeaderPairs ==
    {<< << Txt(<< "E" >>), Txt(<< "P" >>), Txt(<< "a" >>) >>,
        << Blank, Txt(<< "Q" >>), Txt(<< "b" >>) >> >>,
     << << Txt(<< "E" >>), Txt(<< "P" >>), Txt(<< "a" >>) >>,
        << Txt(<< "F" >>), Blank, Blank >> >>}

\* tables of two columns: three header rows over six rows of 0/1 cells
WideTables ==
    {<< h[1] \o c1, h[2] \o c2 >> :
        h \in HeaderPairs, c1 \in ColumnPatterns, c2 \in ColumnPatterns}

\* every key group_by may be asked for
AllGroupKeys == {"extraction", "amplicon", "knockout", "id", "bogus"}

----------------------------------------------------------------------------
(* The calls the user interface can make on a State object self: for each  *)
(* method the inputs offered to it, and what it returns for an input       *)

SamplesheetLoadInputs(self) == (DOMAIN SheetFiles) \X Orders(DOMAIN self.miseq)

SamplesheetUserSplitInputs(self) == SplitGroups(self) \X BOOLEAN

SamplesheetGroupByInputs == GroupKeys

MiseqLoadInputs ==
    UNION {{<< name, order >> :
               order \in IF miseq_load_raises(MiseqFiles[name]) THEN {<< >>}
                         ELSE Orders(DOMAIN load_json(MiseqFiles[name]))} :
           name \in DOMAIN MiseqFiles}

MiseqTogglePickedInputs == PickInputs

MiseqSetCommentInputs == PickInputs \X Comments

MappingSetInputs(self) == MapKnockouts(self) \X MapTargets

LoadStateInputs == DOMAIN ProjectFiles

SaveStateInputs == BOOLEAN

----------------------------------------------------------------------------
(* The state machine: one State object.  Spec: projects are opened, sample *)
(* sheets and sequencing files are loaded and edited, the mapping is set,  *)
(* and calls are undone and redone.  Saving is the subject of SaveSpec.    *)

\* the attributes of the State object, and the table of cells that
\* _read_xlsx_columns reads from the workbook the user has at hand
VARIABLES samplesheet, miseq, ko_mapping, default_ko_mapping,
          undo_history, redo_history, saved_state, workbook, refs

vars == << samplesheet, miseq, ko_mapping, default_ko_mapping,
           undo_history, redo_history, saved_state, workbook, refs >>

\* the State object
Self ==
    [samplesheet |-> samplesheet,
     miseq |-> miseq,
     ko_mapping |-> ko_mapping,
     default_ko_mapping |-> default_ko_mapping,
     undo_history |-> undo_history,
     redo_history |-> redo_history,
     saved_state |-> saved_state]

\* the current snapshot
Current == store_state(Self)

IsObject(self) ==
    /\ samplesheet = self.samplesheet
    /\ miseq = self.miseq
    /\ ko_mapping = self.ko_mapping
    /\ default_ko_mapping = self.default_ko_mapping
    /\ undo_history = self.undo_history
    /\ redo_history = self.redo_history
    /\ saved_state = self.saved_state

\* a new State; the files are named by the calls, no workbook is at hand
Init == IsObject(NewState) /\ workbook = << >> /\ refs = << >>

\* a call is made: the object becomes what the method leaves
Install(result) ==
    /\ samplesheet' = result.self.samplesheet
    /\ miseq' = result.self.miseq
    /\ ko_mapping' = result.self.ko_mapping
    /\ default_ko_mapping' = result.self.default_ko_mapping
    /\ undo_history' = result.self.undo_history
    /\ redo_history' = result.self.redo_history
    /\ saved_state' = result.self.saved_state
    /\ workbook' = workbook
    /\ refs' = refs

HasRoom == Len(undo_history) < MaxUndo

Undo == \E result \in {undo(Self)} : Install(result)

Redo == \E result \in {redo(Self)} : Install(result)

SamplesheetLoad ==
    /\ HasRoom
    /\ \E input \in SamplesheetLoadInputs(Self) :
          Install(samplesheet_load(Self, SheetFiles[input[1]], input[2]))

SamplesheetUserSplit ==
    /\ HasRoom
    /\ \E input \in SamplesheetUserSplitInputs(Self) :
          Install(samplesheet_user_split(Self, input[1], input[2]))

SamplesheetGroupBy ==
    /\ HasRoom
    /\ \E input \in SamplesheetGroupByInputs :
          Install(samplesheet_group_by(Self, input))

MiseqLoad ==
    /\ HasRoom
    /\ \E input \in MiseqLoadInputs :
          Install(miseq_load(Self, MiseqFiles[input[1]], input[2]))

MiseqTogglePicked ==
    /\ HasRoom
    /\ \E input \in MiseqTogglePickedInputs :
          Install(miseq_toggle_picked(Self, input[1], input[2]))

MiseqSetComment ==
    /\ HasRoom
    /\ \E input \in MiseqSetCommentInputs :
          Install(miseq_set_comment(Self, input[1][1], input[1][2], input[2]))

MappingSet ==
    /\ HasRoom
    /\ \E input \in MappingSetInputs(Self) :
          Install(mapping_set(Self, input[1], input[2]))

LoadState ==
    /\ HasRoom
    /\ \E input \in LoadStateInputs : Install(load_state(Self, ProjectFiles[input]))

Next ==
    \/ Undo
    \/ Redo
    \/ SamplesheetLoad
    \/ SamplesheetUserSplit
    \/ SamplesheetGroupBy
    \/ MiseqLoad
    \/ MiseqTogglePicked
    \/ MiseqSetComment
    \/ MappingSet
    \/ LoadState

Spec == Init /\ [][Next]_vars

----------------------------------------------------------------------------
(* MapSpec: the name mapping.  A project saved after a sample sheet and a  *)
(* sequencing file were loaded is opened; then sample sheets are loaded    *)
(* and cells of the mapping are set.                                       *)

MapInit ==
    \E names \in KnockoutNameSets, targets \in TargetNameSets :
        \E order \in Orders(targets) :
            /\ refs = << >>
            /\ IsObject(load_state(NewState, NamesProject(names, targets, order)).self)
            /\ workbook = << >>

MapSheetInputs(self) == KnockoutNameSets \X Orders(DOMAIN self.miseq)

MapSetInputs(self) ==
    (DOMAIN self.ko_mapping \cup {Txt(<< "z" >>)})
        \X ({None} \cup {Some(t) : t \in DOMAIN self.miseq})

MapSamplesheetLoad ==
    /\ HasRoom
    /\ \E input \in MapSheetInputs(Self) :
          Install(samplesheet_load(Self, NamesTable(input[1]), input[2]))

MapMappingSet ==
    /\ HasRoom
    /\ \E input \in MapSetInputs(Self) : Install(mapping_set(Self, input[1], input[2]))

MapNext ==
    \/ MapSamplesheetLoad
    \/ MapMappingSet
    \/ Undo
    \/ Redo

MapSpec == MapInit /\ [][MapNext]_vars

----------------------------------------------------------------------------
(* SheetSpec: the sample sheet.  A sample sheet is loaded into a new       *)
(* State; then it is regrouped and its groups are split by the user.       *)

SheetInit ==
    \E table \in WideTables :
        /\ refs = << >>
        /\ IsObject(samplesheet_load(NewState, table, << >>).self)
        /\ workbook = table

SheetHasRoom == Len(undo_history) < MaxSheetUndo

SheetGroups(self) ==
    {self.samplesheet.knockouts[i].group : i \in 1..Len(self.samplesheet.knockouts)}

SheetSplitInputs(self) == SheetGroups(self) \X BOOLEAN

SheetGroupByInputs == {"extraction", "knockout", "bogus"}

SheetUserSplit ==
    /\ SheetHasRoom
    /\ \E input \in SheetSplitInputs(Self) :
          Install(samplesheet_user_split(Self, input[1], input[2]))

SheetGroupBy ==
    /\ SheetHasRoom
    /\ \E input \in SheetGroupByInputs :
          Install(samplesheet_group_by(Self, input))

SheetNext ==
    \/ SheetUserSplit
    \/ SheetGroupBy
    \/ Undo
    \/ Redo

SheetSpec == SheetInit /\ [][SheetNext]_vars

----------------------------------------------------------------------------
(* GridSpec: the grid locator.  The workbook is a table of two columns of   *)
(* three rows, its cells being 0, 1, a text or blank.  It is loaded into a *)
(* new State, and may be loaded again; loads are undone and redone.        *)

GridCells == {Num(0), Num(1), Txt(<< "a" >>), Blank}

GridTables ==
    (GridCells \X GridCells \X GridCells) \X (GridCells \X GridCells \X GridCells)

GridInit == IsObject(NewState) /\ workbook \in GridTables /\ refs = << >>

GridSamplesheetLoad ==
    /\ SheetHasRoom
    /\ Install(samplesheet_load(Self, workbook, << >>))

GridNext ==
    \/ GridSamplesheetLoad
    \/ Undo
    \/ Redo

GridSpec == GridInit /\ [][GridNext]_vars

----------------------------------------------------------------------------
(* LabelSpec: the labels of the columns.  The workbook is a table whose    *)
(* only knockout, "a" with one occupied row, is in its last column; it is  *)
(* loaded into a new State as in GridSpec.                                 *)

\* the workbook has at most this many columns
MaxColumns == 60

LabelInit ==
    /\ refs = << >>
    /\ IsObject(NewState)
    /\ \E number \in 1..MaxColumns :
          workbook = [c \in 1..number |->
                         IF c = number THEN << Txt(<< "a" >>), Num(1) >>
                                       ELSE << Blank, Blank >>]

LabelSpec == LabelInit /\ [][GridNext]_vars

----------------------------------------------------------------------------
(* CloneSpec: the clones of a group.  A project saved after a sample sheet *)
(* and a sequencing file were loaded is opened; then a cell of the mapping *)
(* is set and the sheet is regrouped and split.                            *)

\* tables of two columns of three rows: the first column is knockout "a"
\* of extraction "E" with two rows occupied; the second column is knockout
\* "b" or, its name left blank, "a" again, of the same or of another
\* extraction; and a table of one column of thirteen occupied rows
CloneTables ==
    {<< << Txt(<< "E" >>), Txt(<< "P" >>), Txt(<< "a" >>) >> \o c1, h \o c2 >> :
        h \in {<< Blank, Txt(<< "Q" >>), Txt(<< "b" >>) >>,
               << Blank, Blank, Blank >>,
               << Txt(<< "F" >>), Txt(<< "Q" >>), Txt(<< "b" >>) >>},
        c1 \in {<< Num(1), Num(1), Num(0) >>,
                << Num(0), Num(1), Num(1) >>},
        c2 \in {<< Num(1), Num(1), Num(0) >>,
                << Num(0), Num(1), Num(1) >>,
                << Num(1), Num(0), Num(0) >>}}
    \cup {<< << Txt(<< "E" >>), Txt(<< "P" >>), Txt(<< "a" >>) >>
               \o [r \in 1..13 |-> Num(1)] >>}

\* a sequencing file with the targets "a" and "b" in well 1 and the target
\* "a" in well 2, without peaks
CloneFile ==
    [ext |-> ".json",
     data |-> Some(
        LET stats == [reads |-> 10, reads_wildtype |-> 10, reads_mutant |-> 0,
                      peaks |-> << >>]
        IN  (<< "1" >> :> [targets |-> (<< "a" >> :> stats) @@ (<< "b" >> :> stats)])
            @@ (<< "2" >> :> [targets |-> (<< "a" >> :> stats)]))]

CloneInit ==
    \E table \in CloneTables, order \in Orders({<< "a" >>, << "b" >>}) :
        /\ refs = << >>
        /\ IsObject(load_state(NewState,
               [exists |-> TRUE, bad_item |-> FALSE,
                pickle |-> Some(store_state(
                    miseq_load(samplesheet_load(NewState, table, << >>).self,
                               CloneFile, order).self))]).self)
        /\ workbook = table

\* the groups the list of the user interface offers, and one it has not
CloneGroups(self) ==
    {knockout_group(self.samplesheet.knockouts[i]) :
        i \in 1..Len(self.samplesheet.knockouts)} \cup {Txt(<< "n", "o" >>)}

CloneNext ==
    \/ MapMappingSet
    \/ SheetUserSplit
    \/ SheetGroupBy
    \/ Undo
    \/ Redo

CloneSpec == CloneInit /\ [][CloneNext]_vars

----------------------------------------------------------------------------
(* LoadSpec: loading.  Sample sheets, among them sheets with a knockout    *)
(* name that is a number, sequencing files and project files, among them   *)
(* one with an item that is no attribute, are loaded into a new State.     *)

MaxLoadUndo == 2

\* "num" has one knockout column, named by the number 5; "mixed" has two,
\* named by the text "a" and the number 5
LoadSheetFiles ==
    [A |-> SheetFiles.A,
     num |-> << << Txt(<< "E" >>), Txt(<< "P" >>), Num(5), Num(1), Num(1) >> >>,
     mixed |-> << << Txt(<< "E" >>), Txt(<< "P" >>), Txt(<< "a" >>), Num(1), Num(1) >>,
                  << Blank, Txt(<< "Q" >>), Num(5), Num(1), Num(0) >> >>]

LoadSheetInputs(self) == (DOMAIN LoadSheetFiles) \X Orders(DOMAIN self.miseq)

\* "badkey" is project file "A" with an item whose key is not a str
LoadProjectFiles == [badkey |-> [ProjectFiles.A EXCEPT !.bad_item = TRUE]]

LoadProjectInputs == DOMAIN LoadProjectFiles

LoadHasRoom == Len(undo_history) < MaxLoadUndo

LoadSamplesheetLoad ==
    /\ LoadHasRoom
    /\ \E input \in LoadSheetInputs(Self) :
          Install(samplesheet_load(Self, LoadSheetFiles[input[1]], input[2]))

LoadMiseqLoad ==
    /\ LoadHasRoom
    /\ \E input \in MiseqLoadInputs :
          Install(miseq_load(Self, MiseqFiles[input[1]], input[2]))

LoadLoadState ==
    /\ LoadHasRoom
    /\ \E input \in LoadProjectInputs :
          Install(load_state(Self, LoadProjectFiles[input]))

LoadNext ==
    \/ LoadSamplesheetLoad
    \/ LoadMiseqLoad
    \/ LoadLoadState
    \/ Undo
    \/ Redo

LoadSpec == Init /\ [][LoadNext]_vars

----------------------------------------------------------------------------
(* SaveSpec: saving.  Projects are opened and saved, and in between the    *)
(* sequencing results are edited.                                          *)

MaxSaveUndo == 3

SaveHasRoom == Len(undo_history) < MaxSaveUndo

SaveState ==
    /\ SaveHasRoom
    /\ \E input \in SaveStateInputs : Install(save_state(Self, input))

SaveLoadState ==
    /\ SaveHasRoom
    /\ \E input \in LoadStateInputs : Install(load_state(Self, ProjectFiles[input]))

SaveMiseqTogglePicked ==
    /\ SaveHasRoom
    /\ \E input \in MiseqTogglePickedInputs :
          Install(miseq_toggle_picked(Self, input[1], input[2]))

SaveMiseqSetComment ==
    /\ SaveHasRoom
    /\ \E input \in MiseqSetCommentInputs :
          Install(miseq_set_comment(Self, input[1][1], input[1][2], input[2]))

SaveNext ==
    \/ SaveState
    \/ SaveLoadState
    \/ SaveMiseqTogglePicked
    \/ SaveMiseqSetComment
    \/ Undo
    \/ Redo

SaveSpec == Init /\ [][SaveNext]_vars

----------------------------------------------------------------------------
(* ResetSpec: the mapping over loads.  A project saved after a sample      *)
(* sheet and a sequencing file were loaded is opened; then cells of the    *)
(* mapping are set and sample sheets and sequencing files are loaded.      *)

MaxResetUndo == 3

ResetInit ==
    \E order \in Orders({<< "a" >>, << "a", "b", "d" >>}) :
        /\ refs = << >>
        /\ IsObject(load_state(NewState,
                NamesProject(<< << "a" >>, << "a", "b" >> >>,
                             {<< "a" >>, << "a", "b", "d" >>}, order)).self)
        /\ workbook = << >>

ResetHasRoom == Len(undo_history) < MaxResetUndo

\* the sample sheets and the sequencing files loaded: each with an order
\* of iteration of the set of target names
ResetSheetInputs(self) ==
    {<< << "a" >> >>, << << "a" >>, << "a", "b" >> >>} \X Orders(DOMAIN self.miseq)

ResetMiseqInputs ==
    UNION {{<< targets, order >> : order \in Orders(targets)} :
           targets \in {{<< "a", "b", "d" >>},
                         {<< "a" >>, << "a", "b", "d" >>}}}

ResetMappingSet ==
    /\ ResetHasRoom
    /\ \E input \in MapSetInputs(Self) : Install(mapping_set(Self, input[1], input[2]))

ResetSamplesheetLoad ==
    /\ ResetHasRoom
    /\ \E input \in ResetSheetInputs(Self) :
          Install(samplesheet_load(Self, NamesTable(input[1]), input[2]))

ResetMiseqLoad ==
    /\ ResetHasRoom
    /\ \E input \in ResetMiseqInputs :
          Install(miseq_load(Self, NamesFile(input[1]), input[2]))

ResetNext ==
    \/ ResetMappingSet
    \/ ResetSamplesheetLoad
    \/ ResetMiseqLoad
    \/ Undo
    \/ Redo

ResetSpec == ResetInit /\ [][ResetNext]_vars

----------------------------------------------------------------------------
(* src/core/core.py: the class Core of the older core package.  A Core has *)
(* the attributes _undo_history, _redo_history and _sheet.  The module     *)
(* .samplesheet it imports SampleSheet from is not in the repository: a    *)
(* sheet is known here by the name of the file it was loaded from, and     *)
(* SampleSheet() is the sheet of no file.                                  *)

MaxCoreUndo == 4

\* the files offered to import_samplesheet; "bad" is one SampleSheet.load
\* raises on
CoreFiles == {"s1", "s2", "s3", "bad"}

\* SampleSheet.load(filename)
SampleSheet_load(filename) ==
    [raised |-> filename = "bad", sheet |-> Some(filename)]

\* Core.__init__
NewCore == [undo_history |-> << >>, redo_history |-> << >>, sheet |-> None]

undo_count(core) == Len(core.redo_history)

redo_count(core) == Len(core.redo_history)

\* _CreateSnapshot.__enter__: the snapshot
create_snapshot_enter(core) == [sheet |-> core.sheet]

\* _CreateSnapshot.__exit__; raised is "exc_type is not None"
create_snapshot_exit(core, snapshot, raised) ==
    IF ~raised
    THEN [core EXCEPT !.undo_history = Append(core.undo_history, snapshot),
                      !.redo_history = << >>]
    ELSE core

import_samplesheet(core, filename) ==
    LET snapshot == create_snapshot_enter(core)
        loaded == SampleSheet_load(filename)
    IN  IF loaded.raised
        THEN Raise(create_snapshot_exit(core, snapshot, TRUE))
        ELSE Return(create_snapshot_exit([core EXCEPT !.sheet = loaded.sheet],
                                         snapshot, FALSE))

\* the Core object: _sheet is held by the variable samplesheet
CoreSelf ==
    [undo_history |-> undo_history, redo_history |-> redo_history,
     sheet |-> samplesheet]

CoreInit ==
    /\ refs = << >>
    /\ samplesheet = NewCore.sheet
    /\ undo_history = NewCore.undo_history
    /\ redo_history = NewCore.redo_history
    /\ miseq = << >>
    /\ ko_mapping = << >>
    /\ default_ko_mapping = << >>
    /\ saved_state = None
    /\ workbook = << >>

ImportSamplesheet ==
    /\ Len(undo_history) < MaxCoreUndo
    /\ \E filename \in CoreFiles :
          LET result == import_samplesheet(CoreSelf, filename)
          IN  /\ samplesheet' = result.self.sheet
              /\ undo_history' = result.self.undo_history
              /\ redo_history' = result.self.redo_history
    /\ UNCHANGED << miseq, ko_mapping, default_ko_mapping, saved_state,
                    workbook, refs >>

CoreNext == ImportSamplesheet

CoreSpec == CoreInit /\ [][CoreNext]_vars

----------------------------------------------------------------------------
(* RefSpec: the State object with references.  The variable refs is the    *)
(* State object as Python holds it; the other variables are the same       *)
(* object by value, as in the specifications above.  Every call is made on *)
(* both.  A sample sheet and a sequencing file were loaded into a new      *)
(* State.                                                                  *)

MaxRefUndo == 4

\* the number of objects made
MaxHeap == 14

RefInit ==
    \E order \in Orders(DOMAIN load_json(MiseqFiles.A)) :
        \E sheet_loaded \in {samplesheet_load(NewState, SheetFiles.A, << >>).self},
           ref_sheet_loaded \in {ref_samplesheet_load(NewRefs, SheetFiles.A, << >>).self} :
            \E loaded \in {miseq_load(sheet_loaded, MiseqFiles.A, order).self},
               ref_loaded \in {ref_miseq_load(ref_sheet_loaded, MiseqFiles.A, order).self} :
                /\ refs = ref_loaded
                /\ IsObject(loaded)
                /\ workbook = << >>

\* the call is made on the object by value and on the object with
\* references
InstallBoth(result, ref_result) ==
    \E both \in {<< result.self, ref_result.self >>} :
        /\ samplesheet' = both[1].samplesheet
        /\ miseq' = both[1].miseq
        /\ ko_mapping' = both[1].ko_mapping
        /\ default_ko_mapping' = both[1].default_ko_mapping
        /\ undo_history' = both[1].undo_history
        /\ redo_history' = both[1].redo_history
        /\ saved_state' = both[1].saved_state
        /\ workbook' = workbook
        /\ refs' = both[2]

RefHasRoom ==
    /\ Len(undo_history) < MaxRefUndo
    /\ Len(refs.heap) + 3 <= MaxHeap

RefUndo == InstallBoth(undo(Self), undo(refs))

RefRedo == InstallBoth(redo(Self), redo(refs))

RefSaveState == InstallBoth(save_state(Self, TRUE), save_state(refs, TRUE))

RefSamplesheetLoad ==
    /\ RefHasRoom
    /\ \E order \in Orders(DOMAIN miseq) :
          InstallBoth(samplesheet_load(Self, SheetFiles.A, order),
                      ref_samplesheet_load(refs, SheetFiles.A, order))

RefMiseqLoad ==
    /\ RefHasRoom
    /\ \E order \in Orders(DOMAIN load_json(MiseqFiles.A)) :
          InstallBoth(miseq_load(Self, MiseqFiles.A, order),
                      ref_miseq_load(refs, MiseqFiles.A, order))

RefSamplesheetUserSplit ==
    /\ RefHasRoom
    /\ \E input \in SheetSplitInputs(Self) :
          InstallBoth(samplesheet_user_split(Self, input[1], input[2]),
                      ref_samplesheet_user_split(refs, input[1], input[2]))

RefSamplesheetGroupBy ==
    /\ RefHasRoom
    /\ \E key \in {"extraction", "knockout"} :
          InstallBoth(samplesheet_group_by(Self, key),
                      ref_samplesheet_group_by(refs, key))

RefMiseqTogglePicked ==
    /\ RefHasRoom
    /\ \E input \in PickInputs :
          InstallBoth(miseq_toggle_picked(Self, input[1], input[2]),
                      ref_miseq_toggle_picked(refs, input[1], input[2]))

RefMiseqSetComment ==
    /\ RefHasRoom
    /\ \E input \in PickInputs \X Comments :
          InstallBoth(miseq_set_comment(Self, input[1][1], input[1][2], input[2]),
                      ref_miseq_set_comment(refs, input[1][1], input[1][2], input[2]))

RefMappingSet ==
    /\ RefHasRoom
    /\ \E input \in MapSetInputs(Self) :
          InstallBoth(mapping_set(Self, input[1], input[2]),
                      ref_mapping_set(refs, input[1], input[2]))

RefNext ==
    \/ RefUndo
    \/ RefRedo
    \/ RefSaveState
    \/ RefSamplesheetLoad
    \/ RefMiseqLoad
    \/ RefSamplesheetUserSplit
    \/ RefSamplesheetGroupBy
    \/ RefMiseqTogglePicked
    \/ RefMiseqSetComment
    \/ RefMappingSet

RefSpec == RefInit /\ [][RefNext]_vars

----------------------------------------------------------------------------
(* Properties.  A property of a method is stated on what the method       *)
(* returns for every input offered to it, in every reachable state.        *)

\* P holds of what every mutating entry point but mapping_set returns
EveryEditResult(self, P(_)) ==
    /\ \A input \in SamplesheetLoadInputs(self) :
          P(samplesheet_load(self, SheetFiles[input[1]], input[2]))
    /\ \A input \in SamplesheetUserSplitInputs(self) :
          P(samplesheet_user_split(self, input[1], input[2]))
    /\ \A input \in SamplesheetGroupByInputs : P(samplesheet_group_by(self, input))
    /\ \A input \in MiseqLoadInputs :
          P(miseq_load(self, MiseqFiles[input[1]], input[2]))
    /\ \A input \in MiseqTogglePickedInputs :
          P(miseq_toggle_picked(self, input[1], input[2]))
    /\ \A input \in MiseqSetCommentInputs :
          P(miseq_set_comment(self, input[1][1], input[1][2], input[2]))
    /\ \A input \in LoadStateInputs : P(load_state(self, ProjectFiles[input]))

\* the object before the last mutating call, whose redo history was lost
Before ==
    replace_state([Self EXCEPT !.undo_history = Popped(undo_history)],
                  Last(undo_history))

\* no two keys share a target
Distinct(mapping) ==
    \A k1, k2 \in DOMAIN mapping :
        (k1 # k2 /\ mapping[k1] # None) => mapping[k1] # mapping[k2]

\* C1 (as claimed): the mapping _init_ko_mapping produces never gives the
\* same target to two knockout names.  The second loop of the code does not
\* add its candidate to used_miseq_targets, and MapSpec reaches a violation.
C1_DefaultMappingDistinct == Distinct(default_ko_mapping)

\* C2: mapping_set(knockout, target) with a target other than the current
\* one leaves knockout at target, clears every other key that held target,
\* keeps the rest, and keeps the targets distinct if they were.
C2_MappingSetMovesTarget ==
    \A input \in MapSetInputs(Self) :
        (input[1] \in DOMAIN ko_mapping /\ ko_mapping[input[1]] # input[2]) =>
            LET result == mapping_set(Self, input[1], input[2])
                new == result.self.ko_mapping
            IN  /\ ~result.raised
                /\ DOMAIN new = DOMAIN ko_mapping
                /\ new[input[1]] = input[2]
                /\ \A other \in DOMAIN ko_mapping \ {input[1]} :
                      new[other] = IF ko_mapping[other] = input[2]
                                   THEN None ELSE ko_mapping[other]
                /\ Distinct(ko_mapping) => Distinct(new)

\* mapping_set has just taken a target from another knockout
C2_Witness ==
    /\ undo_history # << >>
    /\ Current = [Last(undo_history) EXCEPT !.ko_mapping = ko_mapping]
    /\ DOMAIN ko_mapping = DOMAIN Last(undo_history).ko_mapping
    /\ Distinct(Last(undo_history).ko_mapping)
    /\ \E knockout, other \in DOMAIN ko_mapping :
          /\ knockout # other
          /\ Last(undo_history).ko_mapping[other] # None
          /\ Last(undo_history).ko_mapping[knockout] # ko_mapping[knockout]
          /\ ko_mapping[knockout] = Last(undo_history).ko_mapping[other]
          /\ ko_mapping[other] = None

\* C3: mapping_set to the value the knockout already has changes nothing,
\* also as the second of two identical calls.
C3_MappingSetUnchangedIsNoOp ==
    \A input \in MapSetInputs(Self) :
        input[1] \in DOMAIN ko_mapping =>
            LET first == mapping_set(Self, input[1], input[2])
            IN  /\ ko_mapping[input[1]] = input[2] => first = Return(Self)
                /\ mapping_set(first.self, input[1], input[2]) = Return(first.self)

\* mapping_set has just changed a cell, and there is something to redo
\* for a later unchanged call to keep
C3_Witness ==
    /\ undo_history # << >>
    /\ Current = [Last(undo_history) EXCEPT !.ko_mapping = ko_mapping]
    /\ \E knockout \in DOMAIN ko_mapping :
          /\ ko_mapping[knockout] # None
          /\ ko_mapping[knockout] # Last(undo_history).ko_mapping[knockout]

\* what C4 asks of a successful call on Self
Pushed(result) ==
    /\ result.self.undo_history = Append(undo_history, Current)
    /\ result.self.redo_history = << >>

PushedUnlessRaised(result) == ~result.raised => Pushed(result)

\* C4: a successful mutating call pushes the snapshot that was current
\* before it onto the undo history, once, and empties the redo history.
C4_MutatingCallPushesSnapshot ==
    /\ EveryEditResult(Self, PushedUnlessRaised)
    /\ \A input \in MappingSetInputs(Self) :
          LET result == mapping_set(Self, input[1], input[2])
          IN  (~result.raised /\ ko_mapping[input[1]] # input[2]) => Pushed(result)

\* miseq_toggle_picked has just succeeded
C4_Witness ==
    /\ undo_history # << >>
    /\ \E input \in MiseqTogglePickedInputs :
          /\ ~miseq_lookup_raises(Before.miseq, input[1], input[2])
          /\ miseq_toggle_picked(Before, input[1], input[2]) = Return(Self)

\* C5: undo does nothing on an empty undo history; otherwise it pushes the
\* current snapshot onto the redo history, pops the undo history and
\* installs what it popped.  redo is the same with the histories exchanged.
C5_UndoRedoSteps ==
    /\ LET result == undo(Self)
       IN  /\ ~result.raised
           /\ IF undo_history = << >>
              THEN result.self = Self
              ELSE /\ result.self.redo_history = Append(redo_history, Current)
                   /\ result.self.undo_history = Popped(undo_history)
                   /\ store_state(result.self) = Last(undo_history)
    /\ LET result == redo(Self)
       IN  /\ ~result.raised
           /\ IF redo_history = << >>
              THEN result.self = Self
              ELSE /\ result.self.undo_history = Append(undo_history, Current)
                   /\ result.self.redo_history = Popped(redo_history)
                   /\ store_state(result.self) = Last(redo_history)

\* undo has emptied the undo history: undo is now a no-op and redo is not
C5_Witness ==
    /\ undo_history = << >>
    /\ redo_history # << >>
    /\ Last(redo_history) # Current

\* C6: undo followed by redo restores the snapshot and both histories.
C6_UndoThenRedoRestores ==
    undo_history # << >> => redo(undo(Self).self).self = Self

\* there is something to undo that changes the snapshot, and the redo
\* history is not empty
C6_Witness ==
    /\ undo_history # << >>
    /\ redo_history # << >>
    /\ Last(undo_history) # Current

\* a call other than save_state and load_state keeps the saved marker
KeepsMarker(result) == result.self.saved_state = saved_state

\* the object after a successful save_state
Saved == save_state(Self, TRUE).self

\* on the saved object: a call that changes the snapshot makes is_saved
\* false, and undoing that call makes it true again
DirtyUntilUndone(result) ==
    (~result.raised /\ store_state(result.self) # Current) =>
        /\ ~is_saved(result.self)
        /\ is_saved(undo(result.self).self)

UnchangedIfRaised(result) == result.raised => result.self = Self

\* the failures C8 names do raise
FailuresRaise ==
    /\ \A input \in SamplesheetLoadInputs(Self) :
          input[1] \in {"nogrid", "top0"} =>
              samplesheet_load(Self, SheetFiles[input[1]], input[2]).raised
    /\ \A input \in MiseqLoadInputs :
          input[1] \in {"txt", "bad"} =>
              miseq_load(Self, MiseqFiles[input[1]], input[2]).raised
    /\ \A input \in LoadStateInputs :
          input \in {"corrupt", "missing"} =>
              load_state(Self, ProjectFiles[input]).raised
    /\ \A input \in MiseqTogglePickedInputs :
          (input[1] \notin DOMAIN miseq \/ input[2] \notin DOMAIN miseq[input[1]])
              => miseq_toggle_picked(Self, input[1], input[2]).raised
    /\ \A input \in MiseqSetCommentInputs :
          (input[1][1] \notin DOMAIN miseq
              \/ input[1][2] \notin DOMAIN miseq[input[1][1]])
              => miseq_set_comment(Self, input[1][1], input[1][2], input[2]).raised
    /\ \A input \in SamplesheetGroupByInputs :
          (\E i \in 1..Len(samplesheet.knockouts) :
              input \notin DOMAIN samplesheet.knockouts[i].headers)
              => samplesheet_group_by(Self, input).raised
    /\ \A input \in MappingSetInputs(Self) :
          input[1] \notin DOMAIN ko_mapping =>
              mapping_set(Self, input[1], input[2]).raised

\* C8 (as claimed): a mutating call that fails raises and leaves the
\* snapshot, both histories and the saved marker as they were.  LoadSpec
\* reaches a state where samplesheet_load or miseq_load has stored what it
\* loaded and _init_ko_mapping then raises, and one where load_state has
\* installed the attributes of a project file and setattr then raises.
C8_FailedCallChangesNothing ==
    /\ FailuresRaise
    /\ EveryEditResult(Self, UnchangedIfRaised)
    /\ \A input \in LoadSheetInputs(Self) :
          UnchangedIfRaised(samplesheet_load(Self, LoadSheetFiles[input[1]], input[2]))
    /\ \A input \in LoadProjectInputs :
          UnchangedIfRaised(load_state(Self, LoadProjectFiles[input]))
    /\ \A input \in MappingSetInputs(Self) :
          UnchangedIfRaised(mapping_set(Self, input[1], input[2]))

\* the keys group_by accepts on the current sheet
PresentKeys == {key \in AllGroupKeys : ~group_by_raises(samplesheet, key)}

\* C9: group_by is idempotent for every key the sheet has.
C9_GroupByIdempotent ==
    \A key \in PresentKeys :
        /\ ~group_by_raises(group_by(samplesheet, key), key)
        /\ group_by(group_by(samplesheet, key), key) = group_by(samplesheet, key)

\* group_by has just regrouped a sheet with a user split into a group
\* that is split automatically
C9_Witness ==
    /\ undo_history # << >>
    /\ samplesheet.knockouts # << >>
    /\ samplesheet.group_by # Last(undo_history).samplesheet.group_by
    /\ samplesheet = group_by(Last(undo_history).samplesheet, samplesheet.group_by)
    /\ \E i \in 1..Len(samplesheet.knockouts) :
          /\ samplesheet.knockouts[i].split.auto
          /\ Last(undo_history).samplesheet.knockouts[i].split.user

\* C10 (as claimed): group_by leaves split.user of every column as it was.
C10_GroupByKeepsUserSplit ==
    \A key \in PresentKeys :
        \A i \in 1..Len(samplesheet.knockouts) :
            group_by(samplesheet, key).knockouts[i].split.user
                = samplesheet.knockouts[i].split.user

\* C10 (amended): group_by sets split.user of every column to false, also
\* on the columns the user had split.
C10_GroupByClearsUserSplit ==
    \A key \in PresentKeys :
        \A i \in 1..Len(samplesheet.knockouts) :
            group_by(samplesheet, key).knockouts[i].split.user = FALSE

\* group_by has just run on a sheet with a column the user had split
C10_Witness ==
    /\ undo_history # << >>
    /\ \E i \in 1..Len(Last(undo_history).samplesheet.knockouts) :
          Last(undo_history).samplesheet.knockouts[i].split.user
    /\ \E key \in AllGroupKeys :
          /\ ~group_by_raises(Last(undo_history).samplesheet, key)
          /\ samplesheet = group_by(Last(undo_history).samplesheet, key)

\* the number of occupied cells of a column of a sample sheet
Occupied(column) == Cardinality({r \in 1..Len(column) : column[r] # None})

\* the occupied-cell counts of the columns of sheet in the group of its
\* column i
GroupCounts(sheet, i) ==
    {Occupied(sheet.knockouts[j].column) :
        j \in {j \in 1..Len(sheet.knockouts) :
                  sheet.knockouts[j].group = sheet.knockouts[i].group}}

\* C11: after group_by a column has split.auto exactly if the columns of
\* its group have more than one occupied-cell count other than 0: counts
\* {0, 4} give auto = false, counts {4, 6} give auto = true.
C11_AutoSplitIffCountsDiffer ==
    \A key \in PresentKeys :
        LET sheet == group_by(samplesheet, key)
        IN  \A i \in 1..Len(sheet.knockouts) :
                /\ sheet.knockouts[i].group = samplesheet.knockouts[i].headers[key]
                /\ sheet.knockouts[i].split.auto
                       <=> Cardinality(GroupCounts(sheet, i) \ {0}) > 1
                /\ GroupCounts(sheet, i) = {0, 4} => ~sheet.knockouts[i].split.auto
                /\ GroupCounts(sheet, i) = {4, 6} => sheet.knockouts[i].split.auto

\* group_by has just put a column of 4 and a column of 6 occupied cells
\* into one group
C11_Witness ==
    /\ undo_history # << >>
    /\ Len(samplesheet.knockouts) = 2
    /\ samplesheet.group_by # Last(undo_history).samplesheet.group_by
    /\ samplesheet = group_by(Last(undo_history).samplesheet, samplesheet.group_by)
    /\ GroupCounts(samplesheet, 1) = {4, 6}
    /\ samplesheet.knockouts[1].split.auto
    /\ samplesheet.knockouts[2].split.auto
    /\ ~Last(undo_history).samplesheet.knockouts[1].split.auto

\* the groups set_user_split may be asked for: those of the sheet and one
\* it has not
AnyGroups == SheetGroups(Self) \cup {Txt(<< "n", "o" >>)}

\* C12: set_user_split(sheet, group, value) sets split.user to value on
\* the columns of the group and changes nothing else of the sheet.
C12_SetUserSplitFrame ==
    \A group \in AnyGroups, value \in BOOLEAN :
        LET sheet == set_user_split(samplesheet, group, value)
        IN  /\ DOMAIN sheet = DOMAIN samplesheet
            /\ \A field \in DOMAIN sheet \ {"knockouts"} :
                  sheet[field] = samplesheet[field]
            /\ Len(sheet.knockouts) = Len(samplesheet.knockouts)
            /\ \A i \in 1..Len(sheet.knockouts) :
                  LET new == sheet.knockouts[i]
                      old == samplesheet.knockouts[i]
                  IN  /\ new.split.user =
                            IF old.group = group THEN value ELSE old.split.user
                      /\ new.split.auto = old.split.auto
                      /\ DOMAIN new.split = {"auto", "user"}
                      /\ new.group = old.group
                      /\ new.headers = old.headers
                      /\ new.column = old.column

\* set_user_split has just split one of two groups, and the snapshot of
\* the undo history still has the sheet as it was
C12_Witness ==
    /\ undo_history # << >>
    /\ Len(samplesheet.knockouts) = 2
    /\ samplesheet.knockouts[1].group # samplesheet.knockouts[2].group
    /\ \E group \in SheetGroups(Self) :
          samplesheet = set_user_split(Last(undo_history).samplesheet, group, TRUE)
    /\ \E i, j \in 1..2 :
          /\ samplesheet.knockouts[i].split.user
          /\ ~Last(undo_history).samplesheet.knockouts[i].split.user
          /\ ~samplesheet.knockouts[j].split.user

----------------------------------------------------------------------------
(* C13: the shape of the columns *)

\* two sheets have the same columns, of the same lengths, occupied at the
\* same positions
SameShape(a, b) ==
    /\ Len(a.knockouts) = Len(b.knockouts)
    /\ \A i \in 1..Len(a.knockouts) :
          LET x == a.knockouts[i].column
              y == b.knockouts[i].column
          IN  /\ Len(x) = Len(y)
              /\ \A r \in 1..Len(x) : (x[r] # None) <=> (y[r] # None)

\* C13: every column of the sheet loaded from the workbook is as long as
\* the rectangle _locate_cells finds in the workbook is high (bottom - top)
\* and is occupied where the rectangle holds 1; after any group_by,
\* set_user_split, undo and redo every column of the sheet still has that
\* length and is occupied at the positions it was occupied at load.
C13_ColumnsKeepShape ==
    samplesheet.knockouts # << >> =>
        LET cells == locate_cells(workbook)[1]
        IN  /\ ~load_raises(workbook)
            /\ SameShape(samplesheet, load(workbook))
            /\ \A i \in 1..Len(samplesheet.knockouts) :
                  LET column == samplesheet.knockouts[i].column
                  IN  /\ Len(column) = cells.bottom - cells.top
                      /\ \A r \in 1..Len(column) :
                            (column[r] # None) <=>
                                (workbook[cells.left + i][cells.top + r] = Num(1))

\* a sheet of two columns of six rows, the second with two empty slots,
\* was split by the user and regrouped, and the regrouping was undone
C13_Witness ==
    /\ Len(undo_history) = 2
    /\ redo_history # << >>
    /\ Len(samplesheet.knockouts) = 2
    /\ samplesheet.knockouts[1].split.user
    /\ Occupied(samplesheet.knockouts[1].column) = 6
    /\ Len(samplesheet.knockouts[2].column) = 6
    /\ Occupied(samplesheet.knockouts[2].column) = 4
    /\ samplesheet.knockouts[2].column[2] = None
    /\ redo_history[1].samplesheet.group_by # samplesheet.group_by

----------------------------------------------------------------------------
(* C14: the grid locator *)

\* the cells of a table that are 0 or 1, as << column, row >>, 1-based
Indicators(table) ==
    {cr \in (1..Len(table)) \X (1..Len(table[1])) :
        IsIndicator(table[cr[1]][cr[2]])}

\* the cells of a rectangle, half-open at bottom and right, 0-based
CellsOf(rect) ==
    ((rect.left + 1)..rect.right) \X ((rect.top + 1)..rect.bottom)

\* every rectangle of at least one cell within a table
Rects(table) ==
    {rect \in [top : 0..(Len(table[1]) - 1), left : 0..(Len(table) - 1),
               bottom : 1..Len(table[1]), right : 1..Len(table)] :
        rect.top < rect.bottom /\ rect.left < rect.right}

\* C14: _locate_cells returns None exactly when no cell of the workbook is 0
\* or 1; and when the cells that are 0 or 1 are exactly the cells of one
\* rectangle, it returns that rectangle (top and left its first row and
\* column, bottom and right one past its last).
C14_LocateCells ==
    /\ (locate_cells(workbook) = None) <=> (Indicators(workbook) = {})
    /\ \A rect \in Rects(workbook) :
          Indicators(workbook) = CellsOf(rect)
              => locate_cells(workbook) = Some(rect)

\* the workbook holds 0 or 1 in rows 2 and 3 of its second column and
\* nowhere else, and was loaded: the sheet has the one column of two rows
C14_Witness ==
    /\ Indicators(workbook) = {<< 2, 2 >>, << 2, 3 >>}
    /\ locate_cells(workbook)
          = Some([top |-> 1, left |-> 1, bottom |-> 3, right |-> 2])
    /\ Len(samplesheet.knockouts) = 1
    /\ Len(samplesheet.knockouts[1].column) = 2
    /\ undo_history # << >>

----------------------------------------------------------------------------
(* C15: the header rows load asks for *)

\* C15 as stated: load raises, and there is no sheet, whenever the top row
\* of the rectangle in the workbook is one of the rows 0, 1, 2.
C15_LoadRejectsShortHeaders ==
    LET cells == locate_cells(workbook)
    IN  (cells # None /\ cells[1].top < 3) =>
            /\ load_raises(workbook)
            /\ samplesheet.knockouts = << >>

\* C15: load raises when the top row of the rectangle is row 0; when it is
\* row 1 or row 2 load returns a sheet whose headers are the last one or
\* two of extraction, amplicon, knockout, whose columns have these header
\* keys and id, and which is grouped by the first of them.
C15_LoadRejectsTopZeroOnly ==
    LET cells == locate_cells(workbook)
    IN  /\ (cells # None /\ cells[1].top = 0) => load_raises(workbook)
        /\ (cells # None /\ cells[1].top \in {1, 2}) =>
              /\ ~load_raises(workbook)
              /\ LET sheet == load(workbook)
                 IN  /\ sheet.headers = SubSeq(HEADERS, 4 - cells[1].top, 3)
                     /\ sheet.group_by = HEADERS[4 - cells[1].top]
                     /\ sheet.height = cells[1].bottom
                     /\ Len(sheet.knockouts) = cells[1].right - cells[1].left
                     /\ \A i \in 1..Len(sheet.knockouts) :
                           DOMAIN sheet.knockouts[i].headers
                               = Range(sheet.headers) \cup {"id"}

\* the rectangle of the workbook starts in row 2, and the workbook was
\* loaded: the sheet has the headers amplicon and knockout
C15_Witness ==
    /\ locate_cells(workbook) # None
    /\ locate_cells(workbook)[1].top = 2
    /\ undo_history # << >>
    /\ samplesheet = load(workbook)
    /\ samplesheet.headers = << "amplicon", "knockout" >>
    /\ samplesheet.group_by = "amplicon"
    /\ samplesheet.knockouts # << >>

----------------------------------------------------------------------------
(* C16: the default mapping of a knockout without a target of its name *)

\* the knockout names of the default mapping that are no target names
Unmatched == {key \in DOMAIN default_ko_mapping : key.s \notin DOMAIN miseq}

\* the targets that are not the name of a knockout
Unused == {target \in DOMAIN miseq : Txt(target) \notin DOMAIN default_ko_mapping}

\* the default mapping gives key one of the shortest targets of fits, or
\* None if there is none
ShortestOf(key, fits) ==
    IF fits = {}
    THEN default_ko_mapping[key] = None
    ELSE /\ default_ko_mapping[key] # None
         /\ default_ko_mapping[key][1] \in fits
         /\ \A target \in fits : Len(default_ko_mapping[key][1]) <= Len(target)

\* C16 as stated: a knockout name that is no target name gets one of the
\* shortest unused targets whose normalized name is a prefix of the
\* normalized knockout name, or None if there is none.
C16_TargetIsPrefixOfKnockout ==
    \A key \in Unmatched :
        ShortestOf(key, {target \in Unused :
                            StartsWith(Normalize(key.s), Normalize(target))})

\* C16: a knockout name that is no target name gets one of the shortest
\* targets that are no knockout's name and whose normalized name starts
\* with the normalized knockout name, or None if there is none.
C16_KnockoutIsPrefixOfTarget ==
    \A key \in Unmatched :
        ShortestOf(key, {target \in Unused :
                            StartsWith(Normalize(target), Normalize(key.s))})

\* the knockouts "a" and "A b" have no target of their names; "a" is a
\* prefix of both targets and got the shorter one, "A b" got "a_bc", when
\* the sample sheet was loaded
C16_Witness ==
    /\ DOMAIN miseq = {<< "a", "_", "b", "c" >>, << "a", "b", "d" >>}
    /\ {Txt(<< "a" >>), Txt(<< "A", " ", "b" >>)} \subseteq Unmatched
    /\ default_ko_mapping[Txt(<< "a" >>)] = Some(<< "a", "b", "d" >>)
    /\ default_ko_mapping[Txt(<< "A", " ", "b" >>)] = Some(<< "a", "_", "b", "c" >>)
    /\ undo_history # << >>
    /\ Last(undo_history).samplesheet # samplesheet

----------------------------------------------------------------------------
(* C17: the results of the clones of a group *)

\* what the mapping and the sequencing output hold for a knockout name at
\* a well: None for no target or no result
ResultAt(name, index) ==
    IF ko_mapping[name] = None THEN None
    ELSE IF index \in DOMAIN miseq[ko_mapping[name][1]]
         THEN Some(miseq[ko_mapping[name][1]][index])
         ELSE None

\* the << k, index >> at which the columns of a group hold a label
Slots(knockouts, label) ==
    UNION {{<< k, index >> :
               index \in {i \in 1..Len(knockouts[k].column) :
                              knockouts[k].column[i] = Some(label)}} :
           k \in 1..Len(knockouts)}

\* the clones are those of the occupied slots, and each has entries for
\* the knockout names of the columns that hold its label, and no other
ClonesOfOccupied(knockouts, clones) ==
    /\ \A k \in 1..Len(knockouts) : \A index \in 1..Len(knockouts[k].column) :
          knockouts[k].column[index] # None =>
              \E n \in 1..Len(clones) :
                  clones[n].label = knockouts[k].column[index][1]
    /\ \A n \in 1..Len(clones) :
          /\ clones[n].comment = None
          /\ DOMAIN clones[n].knockouts
                = {knockouts[ki[1]].headers["knockout"] :
                      ki \in Slots(knockouts, clones[n].label)}
          /\ DOMAIN clones[n].knockouts # {}

\* C17 as stated: for every column of the group and every occupied row
\* index of it, the clone of the label in that row has, under the knockout
\* name of the column, the result of the mapped target at well index, or
\* None if there is no target or no result; rows that are not occupied add
\* no clone and no entry.
C17_EntryOfEveryColumn ==
    \A group \in CloneGroups(Self) :
        ~clones_get_group_raises(Self, group) =>
            LET knockouts == get_group(samplesheet, group)
                clones == clones_get_group(Self, group)
            IN  /\ ClonesOfOccupied(knockouts, clones)
                /\ \A n \in 1..Len(clones) :
                      \A ki \in Slots(knockouts, clones[n].label) :
                          LET name == knockouts[ki[1]].headers["knockout"]
                          IN  clones[n].knockouts[name] = ResultAt(name, ki[2])

\* C17: the same, the entry under a knockout name being that of the last
\* column of the group that has this name and holds the label.
C17_EntryOfLastColumn ==
    \A group \in CloneGroups(Self) :
        ~clones_get_group_raises(Self, group) =>
            LET knockouts == get_group(samplesheet, group)
                clones == clones_get_group(Self, group)
            IN  /\ ClonesOfOccupied(knockouts, clones)
                /\ \A n \in 1..Len(clones) :
                      \A ki \in Slots(knockouts, clones[n].label) :
                          LET name == knockouts[ki[1]].headers["knockout"]
                              later == {kj \in Slots(knockouts, clones[n].label) :
                                           /\ kj[1] > ki[1]
                                           /\ knockouts[kj[1]].headers["knockout"]
                                                  = name}
                          IN  later = {} =>
                                  clones[n].knockouts[name] = ResultAt(name, ki[2])

\* knockout "a" was mapped to no target by mapping_set; the group of
\* extraction "E" has the columns "a" and "b", and its clone A1 has no
\* result for "a" and the result of target "b" in well 1, its clone A2 has
\* no result for "b", for want of one in well 2
C17_Witness ==
    /\ undo_history # << >>
    /\ Last(undo_history).ko_mapping # ko_mapping
    /\ ko_mapping[Txt(<< "a" >>)] = None
    /\ ~clones_get_group_raises(Self, Txt(<< "E" >>))
    /\ LET clones == clones_get_group(Self, Txt(<< "E" >>))
       IN  /\ Len(clones) = 2
           /\ clones[1].label = << "A", "1" >>
           /\ DOMAIN clones[1].knockouts = {Txt(<< "a" >>), Txt(<< "b" >>)}
           /\ DOMAIN clones[2].knockouts = {Txt(<< "a" >>), Txt(<< "b" >>)}
           /\ clones[1].knockouts[Txt(<< "a" >>)] = None
           /\ clones[1].knockouts[Txt(<< "b" >>)]
                 = Some(miseq[<< "b" >>][1])
           /\ clones[2].label = << "A", "2" >>
           /\ clones[2].knockouts[Txt(<< "b" >>)] = None

----------------------------------------------------------------------------
(* C18: the order of the clones of a group *)

\* the ranks clone_label has labels for: 26 letters of 12 numbers
Ranks == 0..311

\* the key of the label of rank r is the letter of index r div 12 with the
\* number 1 + r mod 12, and the keys ascend with the ranks
RankOrder ==
    \A r \in Ranks :
        /\ ~label_to_key_raises(clone_label(r))
        /\ label_to_key(clone_label(r))
              = [letters |-> << UpperChars[(r \div 12) + 1] >>,
                 number |-> 1 + (r % 12)]
        /\ (r + 1) \in Ranks =>
              KeyLess(label_to_key(clone_label(r)),
                      label_to_key(clone_label(r + 1)))

\* C18: the list clones_get_group returns has no label twice and is in
\* strictly ascending order of the keys label_to_key reads from the labels;
\* for the labels clone_label makes that is the order of their ranks: A1,
\* A2, ..., A12, B1, ...
C18_ClonesSortedByKey ==
    /\ \A group \in CloneGroups(Self) :
          ~clones_get_group_raises(Self, group) =>
              LET clones == clones_get_group(Self, group)
              IN  \A n, m \in 1..Len(clones) :
                      n < m =>
                          /\ clones[n].label # clones[m].label
                          /\ KeyLess(label_to_key(clones[n].label),
                                     label_to_key(clones[m].label))
    /\ RankOrder
    /\ \A i \in 1..Len(samplesheet.knockouts) :
          LET column == samplesheet.knockouts[i].column
          IN  (Occupied(column) = 13 /\ ~samplesheet.knockouts[i].split.auto) =>
                  LET clones == clones_get_group(Self,
                                    knockout_group(samplesheet.knockouts[i]))
                  IN  /\ Len(clones) = 13
                      /\ \A r \in 0..12 : clones[r + 1].label = clone_label(r)
                      /\ clones[12].label = << "A", "1", "2" >>
                      /\ clones[13].label = << "B", "1" >>

\* both columns of a split group hold clones: the first in rows 2 and 3,
\* the second in row 1; the clones come in the order 1, 2, 3, which is not
\* the order in which the loop over the columns found them
C18_Witness ==
    /\ Len(samplesheet.knockouts) = 2
    /\ samplesheet.knockouts[1].split.auto
    /\ \E group \in CloneGroups(Self) :
          /\ ~clones_get_group_raises(Self, group)
          /\ LET found == clones_columns(Self, get_group(samplesheet, group),
                                         1, << >>)
                 clones == clones_get_group(Self, group)
             IN  /\ [n \in 1..Len(found) |-> found[n].label]
                       = << << "2" >>, << "3" >>, << "1" >> >>
                 /\ [n \in 1..Len(clones) |-> clones[n].label]
                       = << << "1" >>, << "2" >>, << "3" >> >>

----------------------------------------------------------------------------
(* C19: the labels of the columns *)

\* the number a label stands for, A .. Z being the digits 1 .. 26
RECURSIVE LabelValue(_)
LabelValue(label) ==
    IF label = << >> THEN 0
    ELSE 26 * LabelValue(SubSeq(label, 1, Len(label) - 1))
         + (CHOOSE d \in 1..26 : UpperChars[d] = label[Len(label)])

\* a str of capital letters, not empty, that stands for number
Numeral(label, number) ==
    /\ label # << >>
    /\ \A i \in 1..Len(label) : label[i] \in Range(UpperChars)
    /\ LabelValue(label) = number

\* column_label of 1, 26, 27, 52, 53, 702 and 703, and of every number up
\* to the labels of three letters
FirstLabels ==
    /\ \A number \in 1..800 : Numeral(column_label(number), number)
    /\ column_label(1) = << "A" >>
    /\ column_label(26) = << "Z" >>
    /\ column_label(27) = << "A", "A" >>
    /\ column_label(52) = << "A", "Z" >>
    /\ column_label(53) = << "B", "A" >>
    /\ column_label(702) = << "Z", "Z" >>
    /\ column_label(703) = << "A", "A", "A" >>

\* C19: the id of the knockout in column n of the workbook carries the
\* label column_label(n): a str of capital letters, not empty, that stands
\* for n when A .. Z are read as the digits 1 .. 26 of base 26, and that no
\* other number of columns has.
C19_ColumnLabelBijective ==
    /\ FirstLabels
    /\ samplesheet.knockouts # << >> =>
          LET number == Len(workbook)
              id == samplesheet.knockouts[1].headers["id"].s
              label == SubSeq(id, 2, Len(id) - 3)
          IN  /\ id = << "[" >> \o column_label(number) \o << "]", " ", "a" >>
              /\ Numeral(label, number)
              /\ \A other \in 1..MaxColumns :
                    other # number => column_label(other) # label

\* a workbook of 53 columns was loaded: its knockout has the id "[BA] a"
C19_Witness ==
    /\ Len(workbook) = 53
    /\ undo_history # << >>
    /\ Len(samplesheet.knockouts) = 1
    /\ samplesheet.knockouts[1].headers["id"]
          = Txt(<< "[", "B", "A", "]", " ", "a" >>)

----------------------------------------------------------------------------
(* C20: calls that change nothing *)

\* a call that returns with the snapshot it found has left the undo and
\* the redo history as they were
NoOpPushesNothing(result) ==
    (~result.raised /\ store_state(result.self) = Current) =>
        /\ result.self.undo_history = undo_history
        /\ result.self.redo_history = redo_history

\* C20 (as claimed): a call of a mutating entry point that leaves the
\* snapshot equal to the one before it, such as samplesheet_user_split with
\* the value the group has, samplesheet_group_by with the current key or
\* miseq_set_comment with the comment stored, pushes no snapshot and keeps
\* the redo history.  All entry points but mapping_set push the snapshot
\* without comparing, and Spec reaches a violation.
C20_NoOpCallsPushNothing == EveryEditResult(Self, NoOpPushesNothing)

----------------------------------------------------------------------------
(* C21: the labels of the slots *)

\* the number of occupied slots of the column above row r (1-based)
RankOf(column, r) == Cardinality({q \in 1..(r - 1) : column[q] # None})

\* every occupied slot of every column carries its 1-based row number
\* where split(knockout) is true and the clone label of its rank where not
LabelsFollow(sheet, split(_)) ==
    \A i \in 1..Len(sheet.knockouts) :
        LET knockout == sheet.knockouts[i]
        IN  \A r \in 1..Len(knockout.column) :
                knockout.column[r] # None =>
                    knockout.column[r] =
                        Some(IF split(knockout) THEN Str(r)
                             ELSE clone_label(RankOf(knockout.column, r)))

EffectiveSplit(knockout) == knockout.split.auto \/ knockout.split.user

AutoSplit(knockout) == knockout.split.auto

\* C21 as stated: in every sheet reached by load, group_by and
\* set_user_split the occupied slots of a column whose effective split
\* (auto or user) is true carry their 1-based row number, and those of a
\* column whose effective split is false carry the clone label of their
\* 0-based occupancy rank.
C21_LabelsFollowEffectiveSplit == LabelsFollow(samplesheet, EffectiveSplit)

\* C21: in every sheet reached by load, group_by and set_user_split the
\* occupied slots of a column whose split.auto is true carry their 1-based
\* row number, and those of a column whose split.auto is false carry the
\* clone label of their 0-based occupancy rank, whatever split.user is.
C21_LabelsFollowAutoSplit == LabelsFollow(samplesheet, AutoSplit)

\* set_user_split has just split a group that is not split automatically,
\* and the first occupied slot of its column still carries "A1"
C21_Witness ==
    /\ undo_history # << >>
    /\ \E group \in SheetGroups(Self) :
          samplesheet = set_user_split(Last(undo_history).samplesheet, group, TRUE)
    /\ \E i \in 1..Len(samplesheet.knockouts) :
          LET knockout == samplesheet.knockouts[i]
          IN  /\ knockout.split.user
              /\ ~knockout.split.auto
              /\ ~Last(undo_history).samplesheet.knockouts[i].split.user
              /\ \E r \in 1..Len(knockout.column) :
                    /\ knockout.column[r] = Some(<< "A", "1" >>)
                    /\ knockout.column[r] # Some(Str(r))

----------------------------------------------------------------------------
(* C22: the area of the rectangle *)

Area(rect) == (rect.right - rect.left) * (rect.bottom - rect.top)

\* the rectangles of a table that hold 0 or 1 in every cell
IndicatorRects(table) ==
    {rect \in Rects(table) : CellsOf(rect) \subseteq Indicators(table)}

\* C22 as stated: when a cell of the workbook is 0 or 1, the rectangle
\* _locate_cells returns lies inside the workbook, holds 0 or 1 in every
\* cell, and no rectangle of the workbook that holds 0 or 1 in every cell
\* has a strictly larger area.
C22_LocatedRectangleIsMaximal ==
    Indicators(workbook) # {} =>
        LET cells == locate_cells(workbook)
        IN  /\ cells # None
            /\ cells[1] \in IndicatorRects(workbook)
            /\ \A rect \in IndicatorRects(workbook) :
                  Area(rect) <= Area(cells[1])

----------------------------------------------------------------------------
(* C23: candidates of the same area *)

\* the anchors << row, column >> of a table, 0-based
Anchors(table) == (0..(Len(table[1]) - 1)) \X (0..(Len(table) - 1))

\* the area of the candidate _grow_selection yields at an anchor
AreaAt(table, a) ==
    grow_selection(table, a[1], a[2])[1] * grow_selection(table, a[1], a[2])[2]

\* the anchors whose candidate has the largest area of all candidates
BestAnchors(table) ==
    {a \in Anchors(table) :
        /\ AreaAt(table, a) > 0
        /\ \A b \in Anchors(table) : AreaAt(table, b) <= AreaAt(table, a)}

\* the rectangle is the candidate of the anchor
CandidateAt(table, a, rect) ==
    /\ rect.top = a[1]
    /\ rect.left = a[2]
    /\ rect.right = a[2] + grow_selection(table, a[1], a[2])[1]
    /\ rect.bottom = a[1] + grow_selection(table, a[1], a[2])[2]

\* C23 as stated: of the anchors whose candidates have the best area,
\* _locate_cells returns the candidate of the one with the lowest row and,
\* among those of that row, the lowest column.
C23_TiesKeepLowestRow ==
    BestAnchors(workbook) # {} =>
        \E a \in BestAnchors(workbook) :
            /\ locate_cells(workbook) # None
            /\ CandidateAt(workbook, a, locate_cells(workbook)[1])
            /\ \A b \in BestAnchors(workbook) :
                  a[1] < b[1] \/ (a[1] = b[1] /\ a[2] <= b[2])

\* C23: of the anchors whose candidates have the best area, _locate_cells
\* returns the candidate of the one with the lowest column and, among
\* those of that column, the lowest row.
C23_TiesKeepLowestColumn ==
    BestAnchors(workbook) # {} =>
        \E a \in BestAnchors(workbook) :
            /\ locate_cells(workbook) # None
            /\ CandidateAt(workbook, a, locate_cells(workbook)[1])
            /\ \A b \in BestAnchors(workbook) :
                  a[2] < b[2] \/ (a[2] = b[2] /\ a[1] <= b[1])

\* two candidates of one cell have the best area, one in row 1 of the
\* second column and one in row 2 of the first; the workbook was loaded
\* and the sheet has the column of the second
C23_Witness ==
    /\ BestAnchors(workbook) = {<< 0, 1 >>, << 1, 0 >>}
    /\ locate_cells(workbook)
          = Some([top |-> 1, left |-> 0, bottom |-> 2, right |-> 1])
    /\ Len(samplesheet.knockouts) = 1
    /\ undo_history # << >>

----------------------------------------------------------------------------
(* C24: the pruning check *)

\* the tables of three columns of four rows whose cells are 1 or text
PruneTables == [1..3 -> [1..4 -> {Num(1), Txt(<< "a" >>)}]]

\* the two searches agree on every table of PruneTables
PruningKeepsWide ==
    \A table \in PruneTables :
        locate_cells(table) = locate_cells_unpruned(table)

\* C24: on the workbook, whose columns have the same length, _locate_cells
\* returns what the same search without the pruning check returns: the
\* same rectangle or None; and so it does on every table of three columns
\* of four rows.
C24_PruningKeepsResult ==
    /\ locate_cells(workbook) = locate_cells_unpruned(workbook)
    /\ PruningKeepsWide

\* the search of the first column found four cells in rows 2 and 3, the
\* pruning check ended the search before the second column, and the
\* workbook was loaded: the sheet has two columns of two rows
C24_Witness ==
    /\ locate_prune(workbook, 1, locate_rows(workbook, 0, 0, NoBest))
    /\ locate_cells(workbook)
          = Some([top |-> 1, left |-> 0, bottom |-> 3, right |-> 2])
    /\ Len(samplesheet.knockouts) = 2
    /\ undo_history # << >>

----------------------------------------------------------------------------
(* C25: the groups get_groups lists *)

\* the column is split: any(knockout['split'].values())
IsSplit(knockout) == knockout.split.auto \/ knockout.split.user

\* the indices of the columns get_group selects for a label
Selected(sheet, label) ==
    {i \in 1..Len(sheet.knockouts) : knockout_group(sheet.knockouts[i]) = label}

\* get_groups lists every label of a column once, in the order in which
\* the labels first occur over the columns
ListsEachLabelOnce(sheet) ==
    LET groups == get_groups(sheet)
        first(n) == CHOOSE i \in Selected(sheet, groups[n][1]) :
                        \A j \in Selected(sheet, groups[n][1]) : i <= j
    IN  /\ \A n, o \in 1..Len(groups) : groups[n][1] = groups[o][1] => n = o
        /\ {groups[n][1] : n \in 1..Len(groups)}
              = {knockout_group(sheet.knockouts[i]) : i \in 1..Len(sheet.knockouts)}
        /\ \A n, o \in 1..Len(groups) : n < o => first(n) < first(o)
        /\ \A n \in 1..Len(groups) :
              groups[n][2] = IsSplit(sheet.knockouts[first(n)])

\* a column that is not split is listed under its group
UnsplitUnderGroup(sheet) ==
    \A i \in 1..Len(sheet.knockouts) :
        LET knockout == sheet.knockouts[i]
        IN  ~IsSplit(knockout) => knockout_group(knockout) = knockout.group

\* C25 as stated: get_groups lists every label once in the order of first
\* occurrence, a group without a split column is listed under its group
\* key, and two different columns of a group whose columns are split never
\* have the same label: get_group selects exactly one column for such a
\* label.
C25_SplitColumnsListedAlone ==
    /\ ListsEachLabelOnce(samplesheet)
    /\ UnsplitUnderGroup(samplesheet)
    /\ \A i \in 1..Len(samplesheet.knockouts) :
          IsSplit(samplesheet.knockouts[i]) =>
              /\ Selected(samplesheet, knockout_group(samplesheet.knockouts[i])) = {i}
              /\ Len(get_group(samplesheet,
                                knockout_group(samplesheet.knockouts[i]))) = 1

\* C25: get_groups lists every label once in the order of first
\* occurrence, with the split flag of the first column of that label; a
\* column that is not split is listed under its group key; a split column
\* is listed under "<knockout> (<group>)" when its knockout name is not its
\* group and under the group key when it is; two split columns of one
\* group have the same label exactly when they have the same knockout
\* name, and get_group selects for a label every column that has it.
C25_SplitColumnsListedByName ==
    /\ ListsEachLabelOnce(samplesheet)
    /\ UnsplitUnderGroup(samplesheet)
    /\ \A i \in 1..Len(samplesheet.knockouts) :
          LET knockout == samplesheet.knockouts[i]
              name == knockout.headers["knockout"]
          IN  IsSplit(knockout) =>
                  knockout_group(knockout) =
                      IF name = knockout.group THEN knockout.group
                      ELSE Txt(CellText(name) \o << " ", "(" >>
                                   \o CellText(knockout.group) \o << ")" >>)
    /\ \A i, j \in 1..Len(samplesheet.knockouts) :
          LET a == samplesheet.knockouts[i]
              b == samplesheet.knockouts[j]
          IN  IsSplit(a) /\ IsSplit(b) /\ a.group = b.group =>
                  ((knockout_group(a) = knockout_group(b))
                      <=> (a.headers["knockout"] = b.headers["knockout"]))
    /\ \A n \in 1..Len(get_groups(samplesheet)) :
          LET label == get_groups(samplesheet)[n][1]
              chosen == get_group(samplesheet, label)
          IN  /\ Len(chosen) = Cardinality(Selected(samplesheet, label))
              /\ \A k \in 1..Len(chosen) : knockout_group(chosen[k]) = label

\* group_by has just put two columns of the same knockout name and of
\* different numbers of occupied slots into one group, which is split
\* automatically: get_groups lists one label, for which get_group selects
\* both columns
C25_Witness ==
    /\ undo_history # << >>
    /\ samplesheet = group_by(Last(undo_history).samplesheet, "knockout")
    /\ Len(samplesheet.knockouts) = 2
    /\ samplesheet.knockouts[1].split.auto
    /\ samplesheet.knockouts[2].split.auto
    /\ Len(get_groups(samplesheet)) = 1
    /\ get_groups(samplesheet)[1][2]
    /\ Len(get_group(samplesheet, get_groups(samplesheet)[1][1])) = 2

----------------------------------------------------------------------------
(* C26: the mapping after a load *)

\* the mapping _init_ko_mapping infers for a sheet and a sequencing output
\* in a State that holds nothing else
InferDefault(sheet, output, order) ==
    init_ko_mapping([NewState EXCEPT !.samplesheet = sheet, !.miseq = output],
                    order).ko_mapping

\* what a load returned without raising: both mappings are the one
\* inferred from the sheet and the sequencing output it left
LoadResets(result, order) ==
    ~result.raised =>
        /\ result.self.ko_mapping = result.self.default_ko_mapping
        /\ result.self.default_ko_mapping
              = InferDefault(result.self.samplesheet, result.self.miseq, order)
        /\ DOMAIN result.self.ko_mapping = samplesheet_target_names(result.self)

\* the call left default_ko_mapping as it was
KeepsDefault(result) == result.self.default_ko_mapping = default_ko_mapping

\* C26: after every samplesheet_load and miseq_load that does not raise,
\* ko_mapping equals default_ko_mapping and both are what _init_ko_mapping
\* infers from the knockout names of the sheet and the target names of the
\* sequencing output alone, whatever cells mapping_set had set before; and
\* mapping_set, miseq_toggle_picked, miseq_set_comment,
\* samplesheet_group_by and samplesheet_user_split leave default_ko_mapping
\* as it was.
C26_LoadsResetMapping ==
    /\ \A input \in SamplesheetLoadInputs(Self) :
          LoadResets(samplesheet_load(Self, SheetFiles[input[1]], input[2]), input[2])
    /\ \A input \in ResetSheetInputs(Self) :
          LoadResets(samplesheet_load(Self, NamesTable(input[1]), input[2]), input[2])
    /\ \A input \in MiseqLoadInputs :
          LoadResets(miseq_load(Self, MiseqFiles[input[1]], input[2]), input[2])
    /\ \A input \in ResetMiseqInputs :
          LoadResets(miseq_load(Self, NamesFile(input[1]), input[2]), input[2])
    /\ \A input \in MappingSetInputs(Self) :
          KeepsDefault(mapping_set(Self, input[1], input[2]))
    /\ \A input \in MiseqTogglePickedInputs :
          KeepsDefault(miseq_toggle_picked(Self, input[1], input[2]))
    /\ \A input \in MiseqSetCommentInputs :
          KeepsDefault(miseq_set_comment(Self, input[1][1], input[1][2], input[2]))
    /\ \A input \in SamplesheetGroupByInputs :
          KeepsDefault(samplesheet_group_by(Self, input))
    /\ \A input \in SamplesheetUserSplitInputs(Self) :
          KeepsDefault(samplesheet_user_split(Self, input[1], input[2]))

\* a load has just succeeded on a State whose mapping the user had
\* changed: the snapshot it pushed has a ko_mapping that differs from its
\* default_ko_mapping, and the two mappings are now the same
C26_Witness ==
    /\ undo_history # << >>
    /\ Last(undo_history).ko_mapping # Last(undo_history).default_ko_mapping
    /\ ko_mapping = default_ko_mapping
    /\ ko_mapping # Last(undo_history).ko_mapping
    /\ \/ /\ samplesheet # Last(undo_history).samplesheet
          /\ \E input \in ResetSheetInputs(Before) :
                LET result == samplesheet_load(Before, NamesTable(input[1]), input[2])
                IN  ~result.raised /\ store_state(result.self) = Current
       \/ /\ miseq # Last(undo_history).miseq
          /\ \E input \in ResetMiseqInputs :
                LET result == miseq_load(Before, NamesFile(input[1]), input[2])
                IN  ~result.raised /\ store_state(result.self) = Current

----------------------------------------------------------------------------
(* C28: the counts of the older Core *)

\* C28 as stated: undo_count() of a Core returns the length of its undo
\* history, which after n import_samplesheet calls that did not raise on a
\* new Core is n, and redo_count() returns 0.
C28_UndoCountIsUndoLength ==
    /\ undo_count(CoreSelf) = Len(undo_history)
    /\ redo_count(CoreSelf) = 0

----------------------------------------------------------------------------
(* C29: the split flags of a group *)

\* C29: the columns of the sheet that have the same group have the same
\* split.auto and the same split.user; and the flag get_groups lists with
\* a label, which it takes from the first column of that label, is
\* "split.auto or split.user" of every column of the group of that column.
C29_GroupSharesSplit ==
    /\ \A i, j \in 1..Len(samplesheet.knockouts) :
          LET a == samplesheet.knockouts[i]
              b == samplesheet.knockouts[j]
          IN  a.group = b.group =>
                  /\ a.split.auto = b.split.auto
                  /\ a.split.user = b.split.user
    /\ \A n \in 1..Len(get_groups(samplesheet)) :
          LET listed == get_groups(samplesheet)[n]
          IN  \A i \in Selected(samplesheet, listed[1]) :
                  \A j \in 1..Len(samplesheet.knockouts) :
                      samplesheet.knockouts[j].group = samplesheet.knockouts[i].group
                          => IsSplit(samplesheet.knockouts[j]) = listed[2]

\* set_user_split has just split a group of two columns of different
\* knockout names that was not split: both columns have split.user, and
\* get_groups lists them under two labels as split
C29_Witness ==
    /\ undo_history # << >>
    /\ Len(samplesheet.knockouts) = 2
    /\ samplesheet.knockouts[1].group = samplesheet.knockouts[2].group
    /\ samplesheet
          = set_user_split(Last(undo_history).samplesheet,
                           samplesheet.knockouts[1].group, TRUE)
    /\ ~IsSplit(Last(undo_history).samplesheet.knockouts[1])
    /\ samplesheet.knockouts[1].split.user
    /\ samplesheet.knockouts[2].split.user
    /\ Len(get_groups(samplesheet)) = 2
    /\ get_groups(samplesheet)[1][2]
    /\ get_groups(samplesheet)[2][2]

----------------------------------------------------------------------------
(* C30: the mapping and the sheet *)

\* clones_get_group raises KeyError: the mapping has no key for the
\* knockout of a column of the group, or the sequencing output has no
\* target of the name the mapping holds for it
LookupFails(self, group) ==
    LET knockouts == get_group(self.samplesheet, group)
    IN  \E k \in 1..Len(knockouts) :
            LET ss_target == knockouts[k].headers["knockout"]
            IN  \/ ss_target \notin DOMAIN self.ko_mapping
                \/ /\ self.ko_mapping[ss_target] # None
                   /\ self.ko_mapping[ss_target][1] \notin DOMAIN self.miseq

\* C30 as stated: in every state reached through loads, undo and redo (and
\* edits, mapping_set being called with None or a target of the sequencing
\* output only) the keys of ko_mapping are the knockout names of the sheet,
\* every value of ko_mapping that is not None is a target of the
\* sequencing output, and clones_get_group raises no KeyError for any
\* group get_groups lists.
C30_MappingFitsSheet ==
    /\ DOMAIN ko_mapping = samplesheet_target_names(Self)
    /\ \A key \in DOMAIN ko_mapping :
          ko_mapping[key] # None => ko_mapping[key][1] \in DOMAIN miseq
    /\ \A n \in 1..Len(get_groups(samplesheet)) :
          ~LookupFails(Self, get_groups(samplesheet)[n][1])

----------------------------------------------------------------------------
(* C27: the snapshots that are stored *)

\* the snapshots of a history refer to objects that have the values the
\* attributes had when each snapshot was taken
HistoryKept(heap, ref_history, history) ==
    /\ Len(ref_history) = Len(history)
    /\ \A i \in 1..Len(history) :
          snapshot_values(heap, ref_history[i]) = history[i]

\* C27: every snapshot in the undo history, in the redo history and in
\* the saved marker of the State object refers, after any calls of
\* samplesheet_group_by, samplesheet_user_split, miseq_toggle_picked,
\* miseq_set_comment, mapping_set, the loads, save_state, undo and redo,
\* to objects whose values are those the attributes had when the snapshot
\* was taken; and the attributes refer to objects of the current values.
C27_SnapshotsKeepValues ==
    /\ HistoryKept(refs.heap, refs.undo_history, undo_history)
    /\ HistoryKept(refs.heap, refs.redo_history, redo_history)
    /\ HistoryKept(refs.heap, refs.saved_state, saved_state)
    /\ snapshot_values(refs.heap, store_state(refs)) = Current

\* miseq_toggle_picked has just been called on a State that was saved:
\* the attribute miseq refers to a new object, the last snapshot of the
\* undo history and the saved marker refer to the object it referred to
\* before, whose result is not picked, and the sample sheet is one object
\* for the attribute, the snapshot and the marker
C27_Witness ==
    /\ undo_history # << >>
    /\ saved_state # None
    /\ ~miseq_lookup_raises(Last(undo_history).miseq, << "a", "b", "d" >>, 1)
    /\ miseq = toggle_picked(Last(undo_history).miseq, << "a", "b", "d" >>, 1)
    /\ miseq # Last(undo_history).miseq
    /\ refs.miseq # Last(refs.undo_history).miseq
    /\ refs.saved_state[1].miseq = Last(refs.undo_history).miseq
    /\ refs.saved_state[1].samplesheet = refs.samplesheet
    /\ Last(refs.undo_history).samplesheet = refs.samplesheet
    /\ refs.heap[Last(refs.undo_history).miseq] # refs.heap[refs.miseq]
====
